---- MODULE Spec2Model ----
(***************************************************************************)
(* State-machine model of the battle effect engine of pokemonduel/misc.py: *)
(* the ExpiringEffect countdown, the Weather field state, the HeldItem     *)
(* slot and the NonVolatileEffect status slot with berry consumption.      *)
(*                                                                         *)
(* Each component has its own specification (SpecTimer, SpecItem,          *)
(* SpecWeather, SpecStatus) over the shared variables; a specification     *)
(* leaves the variables of the other components unchanged.                 *)
(***************************************************************************)
EXTENDS Integers, Sequences, FiniteSets, TLC

\* ------------------------------------------------------------------------
\* Bounds of the model
\* ------------------------------------------------------------------------

\* largest duration handed to set_turns
MaxTurns == 8
\* largest number of next_turn() calls counted after one set_turns
MaxTicks == 10

\* ------------------------------------------------------------------------
\* ExpiringEffect (misc.py 5-36)
\* ------------------------------------------------------------------------

\* Python's None as a remaining-turns value ("never expires"): a sentinel far
\* outside the integers a countdown of the model can reach.
None == -1000

\* ExpiringEffect.active
Active(t) == IF t = None THEN TRUE ELSE t # 0

\* next_turn without the active() test of line 29: decrements an inactive effect
NextTurnTurnsNoGuard(t) == IF t = None THEN t ELSE t - 1

\* ExpiringEffect.next_turn: the remaining turns after the call
NextTurnTurns(t) ==
    IF t = None THEN t
    ELSE IF Active(t) THEN t - 1
    ELSE t

\* next_turn reporting expiry one tick early (remaining turns 1 after the call)
NextTurnRetEarly(t) ==
    IF t = None THEN FALSE
    ELSE IF Active(t) THEN t - 1 = 1
    ELSE FALSE

\* ExpiringEffect.next_turn: the value the call returns
NextTurnRet(t) ==
    IF t = None THEN FALSE
    ELSE IF Active(t) THEN ~Active(t - 1)
    ELSE FALSE

VARIABLES
    eff,        \* ExpiringEffect._remaining_turns of a plain effect
    effOp,      \* the last call made on it: "init", "set_turns", "next_turn"
    effRet,     \* what the last next_turn() returned
    effSet,     \* the duration given at construction or by the last set_turns
    effTicks,   \* next_turn() calls since then
    timers,     \* a LockedMove, an ExpiringItem (the battle's Terrain) and an ExpiringWish
    poke,       \* the two active creatures (trainer1/trainer2.current_pokemon)
    held,       \* their HeldItem objects: item, last_used, ever_had_item
    nv,         \* their NonVolatileEffect objects
    battle,     \* the Battle context: magic_room, terrain
    weather,    \* battle.weather: _weather_type and _remaining_turns
    last,       \* the last call made on an item, weather or status object
    bmsg,       \* battle.msg of each running battle: the narration buffer
    chan,       \* what each battle's channel has been sent
    task,       \* each battle's message coroutine: its position and locals
    disk        \* the files of the working directory

timerVars == <<eff, effOp, effRet, effSet, effTicks, timers>>

dataVars == <<bmsg, chan, task, disk>>

vars ==
    <<eff, effOp, effRet, effSet, effTicks, timers, poke, held, nv, battle, weather,
      last, bmsg, chan, task, disk>>

\* the battles that run in one process
Battles == {1, 2}

\* the two creatures of a battle
Slots == {1, 2}

\* the other creature
Other(s) == 3 - s

\* ------------------------------------------------------------------------
\* Creatures.  The Pokemon class is not part of misc.py; a creature is the
\* record of the attributes misc.py reads and writes.
\* ------------------------------------------------------------------------

\* a creature with no ability of interest, no item effect and full health
DefaultPoke ==
    [ name          |-> "Pikachu",
      ability       |-> "NONE",
      types         |-> {"ELECTRIC"},
      hp            |-> 100,
      starting_hp   |-> 100,
      substitute    |-> FALSE,      \* a substitute is up
      safeguard     |-> FALSE,      \* owner.safeguard.active()
      grounded      |-> TRUE,       \* what grounded(battle, ...) answers
      uproar        |-> FALSE,      \* uproar.active()
      confusion     |-> 0,          \* remaining turns of the confusion timer
      nightmare     |-> FALSE,
      embargo       |-> FALSE,      \* embargo.active()
      corrosive_gas |-> FALSE,
      last_berry    |-> "None",
      ate_berry     |-> FALSE,
      cud_chew      |-> 0,          \* remaining turns of the cud_chew timer
      choice_move   |-> "None" ]

\* Pokemon.ability() with no attacker and no move: the creature's ability
Ability(p) == p.ability

\* an empty HeldItem: HeldItem(None, owner)
EmptyHeld == [item |-> "None", last_used |-> "None", ever_had_item |-> FALSE]

\* NonVolatileEffect.__init__: no status, an inactive sleep timer
NoStatus == [current |-> "", sleep_timer |-> 0, badly_poisoned_turn |-> 0]

\* the state of the creatures and items in a specification that does not use them
CreaturesIdle ==
    /\ poke = [s \in Slots |-> DefaultPoke]
    /\ held = [s \in Slots |-> EmptyHeld]
    /\ nv = [s \in Slots |-> NoStatus]

\* Weather.__init__: no weather, an inactive timer
NoWeather == [type |-> "", turns |-> 0]

\* the battle context in a specification that does not use it
BattleIdle ==
    /\ battle = [magic_room |-> FALSE, terrain |-> "None"]
    /\ weather = NoWeather

\* the timers with a payload as their constructors leave them: ExpiringItem()
\* and ExpiringWish() are inactive and empty; no move is locked
NoTimers ==
    [ locked |-> [turns |-> 0, move |-> "None", turn |-> 0],
      item   |-> [turns |-> 0, item |-> "None"],
      wish   |-> [turns |-> 0, hp |-> None] ]

\* the state of the plain timer in a specification that does not use it
PlainTimerIdle ==
    /\ eff = 0 /\ effSet = 0 /\ effOp = "init" /\ effRet = FALSE /\ effTicks = 0

\* the state of every timer in a specification that uses none
TimerIdle ==
    /\ PlainTimerIdle
    /\ timers = NoTimers

NoCall == [op |-> "init"]

\* no file in the working directory: names stands for the directory entries
\* (0: no such file), data for the content of each file
NoFiles == [names |-> [p \in {"team_preview.png", "battle_msg.png"} |-> 0],
            data  |-> <<>>]

\* a message coroutine that has not been called
IdleTask == [pc |-> "idle"]

\* the state of the battles' messages in a specification that does not use them
DataIdle ==
    /\ bmsg = [b \in Battles |-> <<>>]
    /\ chan = [b \in Battles |-> <<>>]
    /\ task = [b \in Battles |-> IdleTask]
    /\ disk = NoFiles

Durations == {None} \cup (0 .. MaxTurns)

\* ExpiringEffect.__init__(turns_to_expire)
TimerInit ==
    /\ eff \in Durations
    /\ effSet = eff
    /\ effOp = "init"
    /\ effRet = FALSE
    /\ effTicks = 0
    /\ timers = NoTimers
    /\ CreaturesIdle
    /\ BattleIdle
    /\ DataIdle
    /\ last = NoCall

\* ExpiringEffect.set_turns(k)
SetTurns(k) ==
    /\ eff' = k
    /\ effSet' = k
    /\ effOp' = "set_turns"
    /\ effRet' = FALSE
    /\ effTicks' = 0
    /\ UNCHANGED <<timers, poke, held, nv, battle, weather, last, dataVars>>

\* ExpiringEffect.next_turn()
NextTurn ==
    /\ effTicks < MaxTicks
    /\ eff' = NextTurnTurns(eff)
    /\ effRet' = NextTurnRet(eff)
    /\ effOp' = "next_turn"
    /\ effTicks' = effTicks + 1
    /\ UNCHANGED <<effSet, timers, poke, held, nv, battle, weather, last, dataVars>>

TimerNext ==
    \/ \E k \in Durations : SetTurns(k)
    \/ NextTurn

SpecTimer == TimerInit /\ [][TimerNext]_vars

\* C1: an effect given a finite duration n > 0 and ticked with no intervening
\* set_turns is active before the n-th next_turn(), every one of the first n-1
\* calls returns False, and the n-th call returns True and leaves it inactive.
C1_ExpiresOnNthTick ==
    (effSet # None /\ effSet > 0) =>
        /\ effTicks < effSet =>
               Active(eff) /\ (effOp = "next_turn" => effRet = FALSE)
        /\ effTicks = effSet =>
               ~Active(eff) /\ effOp = "next_turn" /\ effRet = TRUE

\* C1 witness: a duration of at least 2 has been ticked down to its expiry
C1_Witness ==
    /\ effSet # None /\ effSet >= 2
    /\ effOp = "next_turn" /\ effTicks = effSet
    /\ effRet = TRUE /\ ~Active(eff)

\* C2: the remaining turns are always None or >= 0; next_turn() on an inactive
\* effect (0) returns False and leaves it at 0, and next_turn() on a permanent
\* effect (None) returns False and leaves it None.
C2_NeverUnderflows ==
    /\ (eff = None \/ eff >= 0)
    /\ [][ /\ (eff' = None \/ eff' >= 0)
           /\ (NextTurn /\ eff = 0 => eff' = 0 /\ effRet' = FALSE)
           /\ (NextTurn /\ eff = None => eff' = None /\ effRet' = FALSE) ]_vars

\* C2 witness: next_turn() has been called on an effect that had already expired
C2_Witness ==
    /\ effOp = "next_turn" /\ effSet # None /\ effTicks > effSet
    /\ eff = 0 /\ effRet = FALSE

\* ------------------------------------------------------------------------
\* HeldItem: the slot operations (misc.py 531-630)
\* ------------------------------------------------------------------------

\* the items HeldItem.can_remove refuses to remove
Unremovable ==
    { "draco-plate", "dread-plate", "earth-plate", "fist-plate", "flame-plate",
      "icicle-plate", "insect-plate", "iron-plate", "meadow-plate", "mind-plate",
      "pixie-plate", "sky-plate", "splash-plate", "spooky-plate", "stone-plate",
      "toxic-plate", "zap-plate",
      "dragon-memory", "dark-memory", "ground-memory", "fighting-memory",
      "fire-memory", "ice-memory", "bug-memory", "steel-memory", "grass-memory",
      "psychic-memory", "fairy-memory", "flying-memory", "water-memory",
      "ghost-memory", "rock-memory", "poison-memory", "electric-memory",
      "primal-orb", "griseous-orb", "blue-orb", "red-orb", "rusty-sword",
      "rusty-shield",
      "mega-stone", "mega-stone-x", "mega-stone-y" }

\* HeldItem.can_remove; h.item is "None" for an empty slot, whose name is None
CanRemove(h) == h.item \notin Unremovable

\* HeldItem.get that tests the suppressors before can_remove
HeldGetOfHidesAll(h, p) ==
    IF h.item = "None" THEN "None"
    ELSE IF p.embargo THEN "None"
    ELSE IF battle.magic_room THEN "None"
    ELSE IF Ability(p) = "KLUTZ" THEN "None"
    ELSE IF p.corrosive_gas THEN "None"
    ELSE h.item

\* HeldItem.get of the slot h of the creature p: the visible item, None while
\* a removable item is suppressed
HeldGetOf(h, p) ==
    IF h.item = "None" THEN "None"
    ELSE IF ~CanRemove(h) THEN h.item
    ELSE IF p.embargo THEN "None"
    ELSE IF battle.magic_room THEN "None"
    ELSE IF Ability(p) = "KLUTZ" THEN "None"
    ELSE IF p.corrosive_gas THEN "None"
    ELSE h.item

\* HeldItem.get of creature s in the current state
HeldGet(s) == HeldGetOf(held[s], poke[s])

\* HeldItem.__init__(item_data, owner)
NewHeld(item) ==
    [item |-> item, last_used |-> "None", ever_had_item |-> item # "None"]

\* the items a creature starts the item specification with
StartItems == {"None", "flame-plate", "mega-stone", "choice-band", "lum-berry"}

\* the moves a choice item may have locked a creature into (None: not locked)
ChoiceMoves == {"None", "tackle"}

\* a call that raised ValueError: nothing is assigned before the raise
Raise(op, s, o) ==
    /\ last' = [op |-> op, self |-> s, other |-> o, exc |-> "ValueError"]
    /\ UNCHANGED <<poke, held>>

\* a call that returned normally
Return(op, s, o) == last' = [op |-> op, self |-> s, other |-> o, exc |-> "None"]

\* HeldItem.remove()
Remove(s) ==
    /\ UNCHANGED <<timerVars, dataVars, nv, battle, weather>>
    /\ IF ~CanRemove(held[s])
       THEN Raise("remove", s, 0)
       ELSE /\ held' = [held EXCEPT ![s].item = "None"]
            /\ UNCHANGED poke
            /\ Return("remove", s, 0)

\* HeldItem.use()
Use(s) ==
    /\ UNCHANGED <<timerVars, dataVars, nv, battle, weather>>
    /\ IF ~CanRemove(held[s])
       THEN Raise("use", s, 0)
       ELSE /\ held' = [held EXCEPT ![s].last_used = held[s].item,
                                    ![s].item = "None"]
            /\ poke' = [poke EXCEPT ![s].choice_move = "None"]
            /\ Return("use", s, 0)

\* transfer that tests only its own slot (the check of lines 610-611 left out)
TransferUnchecked(s, o) ==
    /\ UNCHANGED <<timerVars, dataVars, nv, battle, weather>>
    /\ IF ~CanRemove(held[s])
       THEN Raise("transfer", s, o)
       ELSE /\ held' = [held EXCEPT ![o].item = held[s].item,
                                    ![s].item = "None"]
            /\ UNCHANGED poke
            /\ Return("transfer", s, o)

\* HeldItem.transfer(other)
Transfer(s, o) ==
    /\ UNCHANGED <<timerVars, dataVars, nv, battle, weather>>
    /\ IF ~CanRemove(held[s]) \/ ~CanRemove(held[o])
       THEN Raise("transfer", s, o)
       ELSE /\ held' = [held EXCEPT ![o].item = held[s].item,
                                    ![s].item = "None"]
            /\ UNCHANGED poke
            /\ Return("transfer", s, o)

\* HeldItem.swap(other)
Swap(s, o) ==
    /\ UNCHANGED <<timerVars, dataVars, nv, battle, weather>>
    /\ IF ~CanRemove(held[s]) \/ ~CanRemove(held[o])
       THEN Raise("swap", s, o)
       ELSE /\ held' = [held EXCEPT
                 ![s].item = held[o].item,
                 ![o].item = held[s].item,
                 ![s].ever_had_item =
                     held[s].ever_had_item \/ held[o].item # "None"]
            /\ poke' = [poke EXCEPT ![s].choice_move = "None",
                                    ![o].choice_move = "None"]
            /\ Return("swap", s, o)

\* recover that refuses to overwrite an unremovable item, as transfer does
RecoverIfRemovable(s, o) ==
    /\ UNCHANGED <<timerVars, dataVars, nv, battle, weather>>
    /\ IF ~CanRemove(held[s])
       THEN Raise("recover", s, o)
       ELSE /\ held' = [held EXCEPT
                  ![s].item = held[o].last_used,
                  ![o].last_used = "None",
                  ![s].ever_had_item =
                      held[s].ever_had_item \/ held[o].last_used # "None"]
            /\ UNCHANGED poke
            /\ Return("recover", s, o)

\* recover that leaves other.last_used as it is (line 628 left out)
RecoverKeepsRecord(s, o) ==
    /\ UNCHANGED <<timerVars, dataVars, nv, battle, weather>>
    /\ held' = [held EXCEPT
          ![s].item = held[o].last_used,
          ![s].ever_had_item =
              held[s].ever_had_item \/ held[o].last_used # "None"]
    /\ UNCHANGED poke
    /\ Return("recover", s, o)

\* HeldItem.recover(other); other may be the slot itself
Recover(s, o) ==
    /\ UNCHANGED <<timerVars, dataVars, nv, battle, weather>>
    /\ held' = [held EXCEPT
          ![s].item = held[o].last_used,
          ![o].last_used = "None",
          ![s].ever_had_item =
              held[s].ever_had_item \/ held[o].last_used # "None"]
    /\ UNCHANGED poke
    /\ Return("recover", s, o)

ItemInit ==
    /\ TimerIdle
    /\ DataIdle
    /\ BattleIdle
    /\ nv = [s \in Slots |-> NoStatus]
    /\ \E i1 \in StartItems, i2 \in StartItems :
           held = [s \in Slots |-> NewHeld(IF s = 1 THEN i1 ELSE i2)]
    /\ \E m1 \in ChoiceMoves, m2 \in ChoiceMoves :
           poke = [s \in Slots |->
                     [DefaultPoke EXCEPT !.choice_move = IF s = 1 THEN m1 ELSE m2]]
    /\ last = NoCall

ItemNext ==
    \/ \E s \in Slots : Remove(s)
    \/ \E s \in Slots : Use(s)
    \/ \E s \in Slots : Transfer(s, Other(s))
    \/ \E s \in Slots : Swap(s, Other(s))
    \/ \E s \in Slots, o \in Slots : Recover(s, o)

SpecItem == ItemInit /\ [][ItemNext]_vars

\* C3: use() and remove() on a slot holding an unremovable item, and transfer
\* and swap when either of the two slots holds one, raise the invalid-operation
\* error and leave item, last_used and ever_had_item of both slots and both
\* owners' choice_move as they were.
C3_UnremovableCallsFailUnchanged ==
    [][ /\ ( /\ last'.op \in {"use", "remove"}
             /\ held[last'.self].item \in Unremovable )
           => (last'.exc = "ValueError" /\ held' = held /\ poke' = poke)
        /\ ( /\ last'.op \in {"transfer", "swap"}
             /\ \/ held[last'.self].item \in Unremovable
                \/ held[last'.other].item \in Unremovable )
           => (last'.exc = "ValueError" /\ held' = held /\ poke' = poke)
      ]_vars

\* C3 witness: a transfer failed although the slot it was called on holds a
\* removable item (only the receiving slot's item is unremovable)
C3_Witness ==
    /\ last.op = "transfer" /\ last.exc = "ValueError"
    /\ held[last.self].item \notin Unremovable
    /\ held[last.self].item # "None"
    /\ held[last.other].item \in Unremovable
    /\ poke[last.self].choice_move # "None"

\* ------------------------------------------------------------------------
\* Weather (misc.py 39-183)
\* ------------------------------------------------------------------------

OrdinaryWeathers == {"hail", "sandstorm", "rain", "sun"}

HeavyWeathers == {"h-rain", "h-sun", "h-wind"}

\* the item that lengthens an ordinary weather to 8 turns (lines 119-149)
RockOf(w) ==
    CASE w = "hail"      -> "icy-rock"
      [] w = "sandstorm" -> "smooth-rock"
      [] w = "rain"      -> "damp-rock"
      [] w = "sun"       -> "heat-rock"

\* the type a Forecast creature takes under a weather (lines 124-166)
ElementOf(w) ==
    CASE w = "hail"                -> "ICE"
      [] w \in {"rain", "h-rain"}  -> "WATER"
      [] w \in {"sun", "h-sun"}    -> "FIRE"
      [] w \in {"sandstorm", "h-wind"} -> "NORMAL"

\* the form a Forecast creature takes under a weather (lines 125-167)
CastformOf(w) ==
    CASE w = "hail"                -> "Castform-snowy"
      [] w \in {"rain", "h-rain"}  -> "Castform-rainy"
      [] w \in {"sun", "h-sun"}    -> "Castform-sunny"
      [] w \in {"sandstorm", "h-wind"} -> "Castform"

\* the first line of the message Weather.set returns
StartMsg(w) ==
    CASE w = "hail"      -> "It starts to hail!"
      [] w = "sandstorm" -> "A sandstorm is brewing up!"
      [] w = "rain"      -> "It starts to rain!"
      [] w = "sun"       -> "The sunlight is strong!"
      [] w = "h-rain"    -> "Heavy rain begins to fall!"
      [] w = "h-sun"     -> "The sunlight is extremely harsh!"
      [] w = "h-wind"    -> "The winds are extremely strong!"

CastformForms == {"Castform", "Castform-snowy", "Castform-rainy", "Castform-sunny"}

\* Pokemon.form(name): whether the creature can take the form; the forms of
\* the weather code are Castform's
FormOk(p, form) == p.name \in CastformForms /\ form \in CastformForms

\* one pass of the Forecast loop of Weather.set (lines 176-179) over a creature
ForecastSet(p, w) ==
    IF Ability(p) = "FORECAST" /\ p.name # CastformOf(w) /\ FormOk(p, CastformOf(w))
    THEN [p EXCEPT !.name = CastformOf(w), !.types = {ElementOf(w)}]
    ELSE p

\* one pass of the loop of Weather._expire_weather (lines 61-68) over a creature
ForecastExpire(p) ==
    IF /\ Ability(p) = "FORECAST"
       /\ p.name \in {"Castform-snowy", "Castform-rainy", "Castform-sunny"}
       /\ FormOk(p, "Castform")
    THEN [p EXCEPT !.name = "Castform", !.types = {"NORMAL"}]
    ELSE p

\* the message lines Weather.set appends for the creatures that transformed
ForecastMsgs(w) ==
    LET line(s) == IF ForecastSet(poke[s], w) # poke[s]
                   THEN <<"transformed using its forecast">> ELSE <<>>
    IN  line(1) \o line(2)

\* Weather.set giving the 8 turns to whoever holds any item
SetTurnsOfAnyItem(w, s) ==
    IF w \in HeavyWeathers THEN None
    ELSE IF HeldGet(s) # "None" THEN 8
    ELSE 5

\* the turns Weather.set gives a weather set by creature s (lines 119-152)
SetTurnsOf(w, s) ==
    IF w \in HeavyWeathers THEN None
    ELSE IF HeldGet(s) = RockOf(w) THEN 8
    ELSE 5

\* Weather.set without the heavy-weather tests of lines 117, 127, 137, 147
SetIsNoOpSameOnly(w) == weather.type = w

\* Weather.set returning "" at line 115, 118, 128, 138 or 148
SetIsNoOp(w) ==
    \/ weather.type = w
    \/ w \in OrdinaryWeathers /\ weather.type \in HeavyWeathers

\* Weather.set(w, pokemon) with pokemon the creature s
WeatherSet(w, s) ==
    /\ UNCHANGED <<timerVars, dataVars, held, nv, battle>>
    /\ IF SetIsNoOp(w)
       THEN /\ UNCHANGED <<weather, poke>>
            /\ last' = [op |-> "set", w |-> w, by |-> s, ret |-> <<>>, exc |-> "None"]
       ELSE IF w \notin OrdinaryWeathers \cup HeavyWeathers
       THEN /\ UNCHANGED <<weather, poke>>
            /\ last' = [op |-> "set", w |-> w, by |-> s, ret |-> <<>>,
                        exc |-> "ValueError"]
       ELSE /\ poke' = [t \in Slots |-> ForecastSet(poke[t], w)]
            /\ weather' = [type |-> w, turns |-> SetTurnsOf(w, s)]
            /\ last' = [op |-> "set", w |-> w, by |-> s,
                        ret |-> <<StartMsg(w)>> \o ForecastMsgs(w),
                        exc |-> "None"]

\* _expire_weather whose loop looks at trainer1's creature only
ExpireWeatherFirstOnly ==
    /\ poke' = [t \in Slots |-> IF t = 1 THEN ForecastExpire(poke[t]) ELSE poke[t]]

\* Weather._expire_weather
ExpireWeather ==
    /\ poke' = [t \in Slots |-> ForecastExpire(poke[t])]

\* Weather.next_turn()
WeatherNextTurn ==
    /\ UNCHANGED <<timerVars, dataVars, held, nv, battle>>
    /\ IF NextTurnRet(weather.turns)
       THEN /\ weather' = [type |-> "", turns |-> NextTurnTurns(weather.turns)]
            /\ ExpireWeather
       ELSE /\ weather' = [weather EXCEPT !.turns = NextTurnTurns(weather.turns)]
            /\ UNCHANGED poke
    /\ last' = [op |-> "next_turn", w |-> "",
                ret |-> IF NextTurnRet(weather.turns) THEN <<"True">> ELSE <<"False">>,
                exc |-> "None"]

\* the ability that anchors a heavy weather (lines 83-88)
AnchorOf(w) ==
    CASE w = "h-wind" -> "DELTA_STREAM"
      [] w = "h-sun"  -> "DESOLATE_LAND"
      [] w = "h-rain" -> "PRIMORDIAL_SEA"

\* maintain_weather when the loop looks at trainer1's creature only
MaintainWeatherFirstOnly ==
    /\ weather.type \in HeavyWeathers
    /\ Ability(poke[1]) = AnchorOf(weather.type)

\* maintain_weather after the loop of recheck_ability_weather
MaintainWeather ==
    /\ weather.type \in HeavyWeathers
    /\ \E t \in Slots : Ability(poke[t]) = AnchorOf(weather.type)

\* Weather.recheck_ability_weather()
RecheckAbilityWeather ==
    /\ UNCHANGED <<timerVars, dataVars, held, nv, battle>>
    /\ IF weather.type \in HeavyWeathers /\ ~MaintainWeather
       THEN /\ weather' = [weather EXCEPT !.type = ""]
            /\ ExpireWeather
            /\ last' = [op |-> "recheck", w |-> "", ret |-> <<"True">>, exc |-> "None"]
       ELSE /\ UNCHANGED <<weather, poke>>
            /\ last' = [op |-> "recheck", w |-> "", ret |-> <<"False">>, exc |-> "None"]

\* Weather.get() that tests Cloud Nine only
WeatherGetCloudNineOnly ==
    IF \E t \in Slots : Ability(poke[t]) = "CLOUD_NINE"
    THEN ""
    ELSE weather.type

\* Weather.get()
WeatherGet ==
    IF \E t \in Slots : Ability(poke[t]) \in {"CLOUD_NINE", "AIR_LOCK"}
    THEN ""
    ELSE weather.type

\* the strings handed to Weather.set: the seven weathers, the empty string and
\* a string that names no weather
WeatherArgs == OrdinaryWeathers \cup HeavyWeathers \cup {"", "fog"}

\* ability and species of the creatures of the weather specification
WeatherKinds ==
    { <<"NONE", "Pikachu">>, <<"FORECAST", "Castform">>, <<"FORECAST", "Pikachu">>,
      <<"DELTA_STREAM", "Rayquaza">>, <<"DESOLATE_LAND", "Groudon">>,
      <<"PRIMORDIAL_SEA", "Kyogre">>, <<"CLOUD_NINE", "Golduck">>,
      <<"KLUTZ", "Lopunny">> }

\* the starting types of a species
StartTypes(name) ==
    CASE name = "Pikachu"  -> {"ELECTRIC"}
      [] name = "Castform" -> {"NORMAL"}
      [] name = "Rayquaza" -> {"DRAGON", "FLYING"}
      [] name = "Groudon"  -> {"GROUND"}
      [] name = "Kyogre"   -> {"WATER"}
      [] name = "Golduck"  -> {"WATER"}
      [] name = "Lopunny"  -> {"NORMAL"}

\* the items the creatures of the weather specification start with
WeatherItems == {"None", "icy-rock", "smooth-rock", "damp-rock", "heat-rock"}

WeatherPoke(k) ==
    [DefaultPoke EXCEPT !.ability = k[1], !.name = k[2], !.types = StartTypes(k[2])]

WeatherInit ==
    /\ TimerIdle
    /\ DataIdle
    /\ battle = [magic_room |-> FALSE, terrain |-> "None"]
    /\ weather = NoWeather
    /\ nv = [s \in Slots |-> NoStatus]
    /\ \E k1 \in WeatherKinds, k2 \in WeatherKinds :
           poke = [s \in Slots |-> WeatherPoke(IF s = 1 THEN k1 ELSE k2)]
    /\ \E i1 \in WeatherItems, i2 \in WeatherItems :
           held = [s \in Slots |-> NewHeld(IF s = 1 THEN i1 ELSE i2)]
    /\ last = NoCall

WeatherNext ==
    \/ \E w \in WeatherArgs, s \in Slots : WeatherSet(w, s)
    \/ WeatherNextTurn
    \/ RecheckAbilityWeather

SpecWeather == WeatherInit /\ [][WeatherNext]_vars

\* ------------------------------------------------------------------------
\* NonVolatileEffect and berry consumption (misc.py 319-491, 632-681, 896-1028)
\*
\* apply_status and eat_berry are functions of the "world" W = [poke, held, nv]
\* (the two creatures, their items and their statuses) to the world they leave
\* and the message they return; a message is the sequence of its lines, each
\* line [who |-> the creature named, what |-> the sentence].
\* ------------------------------------------------------------------------

World == [poke |-> poke, held |-> held, nv |-> nv]

Msg(who, what) == <<[who |-> who, what |-> what]>>

Statuses == {"burn", "sleep", "poison", "b-poison", "paralysis", "freeze"}

\* Pokemon.ability(attacker=, move=): the creature's ability as the attacker's
\* move sees it
AbilityVs(p, a, mv) == Ability(p)

\* NonVolatileEffect.burn / sleep / poison / paralysis / freeze
NvBurn(W, t) == W.nv[t].current = "burn"

NvSleep(W, t) == Ability(W.poke[t]) = "COMATOSE" \/ W.nv[t].current = "sleep"

NvPoison(W, t) == W.nv[t].current \in {"poison", "b-poison"}

NvParalysis(W, t) == W.nv[t].current = "paralysis"

NvFreeze(W, t) == W.nv[t].current = "freeze"

\* reset that clears the status only (lines 489-490 left out)
NvResetStatusOnly(W, t) ==
    [W EXCEPT !.nv[t].current = "", !.poke[t].nightmare = FALSE]

\* NonVolatileEffect.reset
NvReset(W, t) ==
    [W EXCEPT !.nv[t] = NoStatus, !.poke[t].nightmare = FALSE]

\* Pokemon.confuse: the creature becomes confused unless it already is
Confuse(W, t) ==
    IF W.poke[t].confusion = 0
    THEN [W |-> [W EXCEPT !.poke[t].confusion = 3], msg |-> Msg(t, "became confused")]
    ELSE [W |-> W, msg |-> Msg(t, "is already confused")]

\* Pokemon.heal: hit points restored up to the maximum
Heal(W, t, amount) ==
    LET hp == W.poke[t].hp
        to == IF hp + amount > W.poke[t].starting_hp
              THEN W.poke[t].starting_hp ELSE hp + amount
    IN  [W |-> [W EXCEPT !.poke[t].hp = to], msg |-> Msg(t, "healed")]

\* the identifiers ending in "-berry" (HeldItem.is_berry)
Berries ==
    { "figy-berry", "wiki-berry", "mago-berry", "aguav-berry", "iapapa-berry",
      "apicot-berry", "ganlon-berry", "lansat-berry", "liechi-berry",
      "micle-berry", "petaya-berry", "salac-berry", "starf-berry",
      "oran-berry", "leppa-berry", "custap-berry", "jaboca-berry",
      "rowap-berry", "sitrus-berry",
      "aspear-berry", "cheri-berry", "chesto-berry", "pecha-berry",
      "rawst-berry", "persim-berry", "lum-berry",
      "chilan-berry", "occa-berry", "passho-berry", "wacan-berry",
      "rindo-berry", "yache-berry", "chople-berry", "kebia-berry",
      "shuca-berry", "coba-berry", "payapa-berry", "tanga-berry",
      "charti-berry", "kasib-berry", "haban-berry", "colbur-berry",
      "babiri-berry", "roseli-berry" }

\* HeldItem.is_berry() of creature o in world W (only_active)
IsBerry(W, o) == HeldGetOf(W.held[o], W.poke[o]) \in Berries

\* HeldItem.remove() and use() inside a world; the berries eaten are removable
\* remove that records the item as last used, as use does
RemoveInRecording(W, o) ==
    [W EXCEPT !.held[o].last_used = W.held[o].item, !.held[o].item = "None"]

\* HeldItem.remove of creature o's item (it can be removed)
RemoveIn(W, o) == [W EXCEPT !.held[o].item = "None"]

UseIn(W, o) ==
    [W EXCEPT !.held[o].last_used = W.held[o].item,
              !.held[o].item = "None",
              !.poke[o].choice_move = "None"]

\* the cure test of a status berry of eat_berry (lines 971-1000)
Cures(W, berry, c) ==
    CASE berry = "aspear-berry" -> NvFreeze(W, c)
      [] berry = "cheri-berry"  -> NvParalysis(W, c)
      [] berry = "chesto-berry" -> NvSleep(W, c)
      [] berry = "pecha-berry"  -> NvPoison(W, c)
      [] berry = "rawst-berry"  -> NvBurn(W, c)

CureMsg(berry) ==
    CASE berry = "aspear-berry" -> "is no longer frozen after eating its berry"
      [] berry = "cheri-berry"  -> "is no longer paralyzed after eating its berry"
      [] berry = "chesto-berry" -> "woke up after eating its berry"
      [] berry = "pecha-berry"  -> "is no longer poisoned after eating its berry"
      [] berry = "rawst-berry"  -> "is no longer burned after eating its berry"

StatusBerries ==
    {"aspear-berry", "cheri-berry", "chesto-berry", "pecha-berry", "rawst-berry"}

\* the branch of eat_berry for the visible berry, eaten by creature c
\* (lines 914-1010); ripe is 2 with Ripen and 1 without
BerryEffect(W, berry, c, ripe) ==
    IF berry = "sitrus-berry"
    THEN Heal(W, c, (ripe * W.poke[c].starting_hp) \div 4)
    ELSE IF berry = "oran-berry"
    THEN Heal(W, c, ripe * 10)
    ELSE IF berry \in StatusBerries
    THEN IF Cures(W, berry, c)
         THEN [W |-> NvReset(W, c), msg |-> Msg(c, CureMsg(berry))]
         ELSE [W |-> W, msg |-> Msg(c, "berry had no effect")]
    ELSE IF berry = "persim-berry"
    THEN IF W.poke[c].confusion # 0
         THEN [W |-> [W EXCEPT !.poke[c].confusion = 0],
               msg |-> Msg(c, "is no longer confused after eating its berry")]
         ELSE [W |-> W, msg |-> Msg(c, "berry had no effect")]
    ELSE IF berry = "lum-berry"
    THEN [W |-> [NvReset(W, c) EXCEPT !.poke[c].confusion = 0],
          msg |-> Msg(c, "statuses were cleared from eating its berry")]
    ELSE [W |-> W, msg |-> <<>>]

\* HeldItem.eat_berry(consumer=c, attacker=a, move=mv) of creature o's item;
\* c = 0 and a = 0 stand for None
EatBerry(W, o, c, a, mv) ==
    IF ~IsBerry(W, o) THEN [W |-> W, msg |-> <<>>]
    ELSE
    LET berry == HeldGetOf(W.held[o], W.poke[o])
        con   == IF c = 0 THEN o ELSE c
        m0    == IF c = 0 THEN <<>> ELSE Msg(con, "eats the berry")
        ripe  == IF AbilityVs(W.poke[con], a, mv) = "RIPEN" THEN 2 ELSE 1
        E     == BerryEffect(W, berry, con, ripe)
        P     == IF AbilityVs(E.W.poke[con], a, mv) = "CHEEK_POUCH"
                 THEN Heal(E.W, con, E.W.poke[con].starting_hp \div 3)
                 ELSE [W |-> E.W, msg |-> <<>>]
        W3    == [P.W EXCEPT
                    !.poke[con].last_berry = W.held[o].item,
                    !.poke[con].ate_berry = TRUE,
                    !.poke[con].cud_chew =
                        IF AbilityVs(P.W.poke[con], a, mv) = "CUD_CHEW"
                        THEN 2 ELSE P.W.poke[con].cud_chew]
    IN  [W   |-> IF con = o THEN UseIn(W3, o) ELSE RemoveIn(W3, o),
         msg |-> m0 \o E.msg \o P.msg]

\* HeldItem._should_eat_berry_util(otherpoke=a)
ShouldEatBerryUtil(W, o, a) ==
    /\ W.poke[o].hp # 0
    /\ ~(a # 0 /\ Ability(W.poke[a]) \in {"UNNERVE", "AS_ONE_SHADOW", "AS_ONE_ICE"})
    /\ IsBerry(W, o)

\* should_eat_berry_status that knows the five specific berries only
ShouldEatBerryStatusNoLum(W, o, a) ==
    LET vis == HeldGetOf(W.held[o], W.poke[o]) IN
    /\ ShouldEatBerryUtil(W, o, a)
    /\ \/ vis = "aspear-berry" /\ NvFreeze(W, o)
       \/ vis = "cheri-berry" /\ NvParalysis(W, o)
       \/ vis = "chesto-berry" /\ NvSleep(W, o)
       \/ vis = "pecha-berry" /\ NvPoison(W, o)
       \/ vis = "rawst-berry" /\ NvBurn(W, o)
       \/ vis = "persim-berry" /\ W.poke[o].confusion # 0

\* HeldItem.should_eat_berry_status(otherpoke=a)
ShouldEatBerryStatus(W, o, a) ==
    LET vis == HeldGetOf(W.held[o], W.poke[o]) IN
    /\ ShouldEatBerryUtil(W, o, a)
    /\ \/ vis \in {"aspear-berry", "lum-berry"} /\ NvFreeze(W, o)
       \/ vis \in {"cheri-berry", "lum-berry"} /\ NvParalysis(W, o)
       \/ vis \in {"chesto-berry", "lum-berry"} /\ NvSleep(W, o)
       \/ vis \in {"pecha-berry", "lum-berry"} /\ NvPoison(W, o)
       \/ vis \in {"rawst-berry", "lum-berry"} /\ NvBurn(W, o)
       \/ vis \in {"persim-berry", "lum-berry"} /\ W.poke[o].confusion # 0

\* the weather Weather.get() reports to the creatures of world W
WeatherGetIn(W) ==
    IF \E t \in Slots : Ability(W.poke[t]) \in {"CLOUD_NINE", "AIR_LOCK"}
    THEN ""
    ELSE weather.type

\* the exclusivity test of apply_status (line 397)
AlreadyHasStatus(W, t, force) == W.nv[t].current # "" /\ ~force

\* the guards with force=True passing all of them, not only the exclusivity test
GuardOfForcedThrough(W, t, a, mv, force) ==
    LET p  == W.poke[t]
        ab == AbilityVs(p, a, mv)
    IN  IF force THEN ""
        ELSE IF W.nv[t].current # "" THEN "already has a status"
        ELSE IF ab = "COMATOSE" THEN "already has a status"
        ELSE IF ab = "PURIFYING_SALT" THEN "purifying salt protects it"
        ELSE IF ab = "LEAF_GUARD" /\ WeatherGetIn(W) \in {"sun", "h-sun"}
             THEN "leaf guard protects it"
        ELSE IF p.substitute /\ a # t /\ mv # "bypass"
             THEN "substitute protects it"
        ELSE IF p.safeguard /\ a # t /\ (a = 0 \/ Ability(W.poke[a]) # "INFILTRATOR")
             THEN "safeguard protects it"
        ELSE IF p.grounded /\ battle.terrain = "misty"
             THEN "misty terrain protects it"
        ELSE IF ab = "FLOWER_VEIL" /\ "GRASS" \in p.types
             THEN "flower veil protects it"
        ELSE IF p.name = "Minior" THEN "hard shell protects it"
        ELSE ""

\* the guard of apply_status that returns before the status is looked at
\* (lines 397-418): the sentence returned, or "" when none applies
GuardOf(W, t, a, mv, force) ==
    LET p  == W.poke[t]
        ab == AbilityVs(p, a, mv)
    IN  IF AlreadyHasStatus(W, t, force) THEN "already has a status"
        ELSE IF ab = "COMATOSE" THEN "already has a status"
        ELSE IF ab = "PURIFYING_SALT" THEN "purifying salt protects it"
        ELSE IF ab = "LEAF_GUARD" /\ WeatherGetIn(W) \in {"sun", "h-sun"}
             THEN "leaf guard protects it"
        ELSE IF p.substitute /\ a # t /\ mv # "bypass"
             THEN "substitute protects it"
        ELSE IF p.safeguard /\ a # t /\ (a = 0 \/ Ability(W.poke[a]) # "INFILTRATOR")
             THEN "safeguard protects it"
        ELSE IF p.grounded /\ battle.terrain = "misty"
             THEN "misty terrain protects it"
        ELSE IF ab = "FLOWER_VEIL" /\ "GRASS" \in p.types
             THEN "flower veil protects it"
        ELSE IF p.name = "Minior" THEN "hard shell protects it"
        ELSE ""

\* the burn block without its type test (lines 420-421 left out)
BurnImmunityNoType(W, t, a, mv) ==
    IF AbilityVs(W.poke[t], a, mv) \in {"WATER_VEIL", "WATER_BUBBLE"}
    THEN "ability prevents it from getting burned"
    ELSE ""

\* the immunity tests of the burn block (lines 420-424): the sentence
\* returned, or "" when the status is inflicted
BurnImmunity(W, t, a, mv) ==
    IF "FIRE" \in W.poke[t].types THEN "is a fire type and can't be burned"
    ELSE IF AbilityVs(W.poke[t], a, mv) \in {"WATER_VEIL", "WATER_BUBBLE"}
         THEN "ability prevents it from getting burned"
    ELSE ""

\* the immunity tests of the sleep block (lines 428-437)
SleepImmunity(W, t, a, mv) ==
    IF AbilityVs(W.poke[t], a, mv) \in {"INSOMNIA", "VITAL_SPIRIT", "SWEET_VEIL"}
    THEN "ability keeps it awake"
    ELSE IF W.poke[t].grounded /\ battle.terrain = "electric"
         THEN "terrain is too electric to fall asleep"
    ELSE IF W.poke[1].uproar \/ W.poke[2].uproar
         THEN "an uproar keeps it from falling asleep"
    ELSE ""

\* the poison block without its type tests (lines 446-450 left out)
PoisonImmunityNoType(W, t, a, mv) ==
    IF AbilityVs(W.poke[t], a, mv) \in {"IMMUNITY", "PASTEL_VEIL"}
    THEN "ability keeps it from being poisoned"
    ELSE ""

\* the immunity tests of the poison block (lines 446-453)
PoisonImmunity(W, t, a, mv) ==
    IF (a = 0 \/ Ability(W.poke[a]) # "CORROSION") /\ "STEEL" \in W.poke[t].types
    THEN "is a steel type and can't be poisoned"
    ELSE IF (a = 0 \/ Ability(W.poke[a]) # "CORROSION")
            /\ "POISON" \in W.poke[t].types
         THEN "is a poison type and can't be poisoned"
    ELSE IF AbilityVs(W.poke[t], a, mv) \in {"IMMUNITY", "PASTEL_VEIL"}
         THEN "ability keeps it from being poisoned"
    ELSE ""

\* the immunity tests of the paralysis block (lines 461-464)
ParalysisImmunity(W, t, a, mv) ==
    IF "ELECTRIC" \in W.poke[t].types
    THEN "is an electric type and can't be paralyzed"
    ELSE IF AbilityVs(W.poke[t], a, mv) = "LIMBER"
         THEN "limber keeps it from being paralyzed"
    ELSE ""

\* the immunity tests of the freeze block (lines 468-473)
FreezeImmunity(W, t, a, mv) ==
    IF "ICE" \in W.poke[t].types THEN "is an ice type and can't be frozen"
    ELSE IF AbilityVs(W.poke[t], a, mv) = "MAGMA_ARMOR"
         THEN "magma armor keeps it from being frozen"
    ELSE IF WeatherGetIn(W) \in {"sun", "h-sun"}
         THEN "it's too sunny to freeze"
    ELSE ""

\* the immunity test of the status's own block (lines 419-475)
ImmunityOf(W, t, status, a, mv) ==
    CASE status = "burn"                  -> BurnImmunity(W, t, a, mv)
      [] status = "sleep"                 -> SleepImmunity(W, t, a, mv)
      [] status \in {"poison", "b-poison"} -> PoisonImmunity(W, t, a, mv)
      [] status = "paralysis"             -> ParalysisImmunity(W, t, a, mv)
      [] status = "freeze"                -> FreezeImmunity(W, t, a, mv)

\* the sentence apply_status appends when it inflicts the status
InflictedMsg(status) ==
    CASE status = "burn"      -> "was burned"
      [] status = "sleep"     -> "fell asleep"
      [] status = "poison"    -> "was poisoned"
      [] status = "b-poison"  -> "was badly poisoned"
      [] status = "paralysis" -> "was paralyzed"
      [] status = "freeze"    -> "was frozen solid"

\* the assignments with bad poison stored as plain poison
InflictPlainPoison(W, t, status, a, mv, turns, r) ==
    LET n  == IF turns = None THEN r ELSE turns
        n2 == IF AbilityVs(W.poke[t], a, mv) = "EARLY_BIRD" THEN n \div 2 ELSE n
        W1 == IF status = "sleep"
              THEN [W EXCEPT !.nv[t].current = status, !.nv[t].sleep_timer = n2]
              ELSE [W EXCEPT !.nv[t].current =
                                 IF status = "b-poison" THEN "poison" ELSE status]
    IN  IF /\ status \in {"poison", "b-poison"}
           /\ mv # "None" /\ a # 0 /\ Ability(W.poke[a]) = "POISON_PUPPETEER"
        THEN LET C == Confuse(W1, t)
             IN  [W |-> C.W, msg |-> Msg(t, InflictedMsg(status)) \o C.msg]
        ELSE [W |-> W1, msg |-> Msg(t, InflictedMsg(status))]

\* the assignments without the halving of Early Bird (lines 440-441 left out)
InflictNoEarlyBird(W, t, status, a, mv, turns, r) ==
    LET n  == IF turns = None THEN r ELSE turns
        W1 == IF status = "sleep"
              THEN [W EXCEPT !.nv[t].current = status, !.nv[t].sleep_timer = n]
              ELSE [W EXCEPT !.nv[t].current = status]
    IN  IF /\ status \in {"poison", "b-poison"}
           /\ mv # "None" /\ a # 0 /\ Ability(W.poke[a]) = "POISON_PUPPETEER"
        THEN LET C == Confuse(W1, t)
             IN  [W |-> C.W, msg |-> Msg(t, InflictedMsg(status)) \o C.msg]
        ELSE [W |-> W1, msg |-> Msg(t, InflictedMsg(status))]

\* the assignments of the status's block once no immunity applies: the status,
\* the sleep timer (r is the value random.randint(2, 4) draws) and the
\* confusion of Poison Puppeteer
Inflict(W, t, status, a, mv, turns, r) ==
    LET n  == IF turns = None THEN r ELSE turns
        n2 == IF AbilityVs(W.poke[t], a, mv) = "EARLY_BIRD" THEN n \div 2 ELSE n
        W1 == IF status = "sleep"
              THEN [W EXCEPT !.nv[t].current = status, !.nv[t].sleep_timer = n2]
              ELSE [W EXCEPT !.nv[t].current = status]
    IN  IF /\ status \in {"poison", "b-poison"}
           /\ mv # "None" /\ a # 0 /\ Ability(W.poke[a]) = "POISON_PUPPETEER"
        THEN LET C == Confuse(W1, t)
             IN  [W |-> C.W, msg |-> Msg(t, InflictedMsg(status)) \o C.msg]
        ELSE [W |-> W1, msg |-> Msg(t, InflictedMsg(status))]

\* a refusal that falls through to the berry test of lines 481-482 instead
\* of returning
RefusedThenEats(W, t, sentence) ==
    LET B == IF ShouldEatBerryStatus(W, t, 0)
             THEN EatBerry(W, t, 0, 0, "None")
             ELSE [W |-> W, msg |-> <<>>]
    IN  [W |-> B.W, msg |-> Msg(t, sentence) \o B.msg]

\* an early return of apply_status: the sentence is returned and nothing is
\* assigned
Refused(W, t, sentence) == [W |-> W, msg |-> Msg(t, sentence)]

\* apply_status without the Synchronize step (lines 477-479 left out)
ApplyStatusNoSynchronize(W, t, status, a, mv, turns, force, rs) ==
    IF GuardOf(W, t, a, mv, force) # ""
    THEN Refused(W, t, GuardOf(W, t, a, mv, force))
    ELSE IF ImmunityOf(W, t, status, a, mv) # ""
    THEN Refused(W, t, ImmunityOf(W, t, status, a, mv))
    ELSE
    LET I == Inflict(W, t, status, a, mv, turns, Head(rs))
        B == IF ShouldEatBerryStatus(I.W, t, a)
             THEN EatBerry(I.W, t, 0, a, mv)
             ELSE [W |-> I.W, msg |-> <<>>]
    IN  [W |-> B.W, msg |-> I.msg \o B.msg]

\* apply_status whose Synchronize call passes force=True, unrolled to the
\* fourth call of the chain it starts between two Synchronize creatures
ApplyStatusSyncForced(W, t, status, a, mv, turns, force, rs) ==
    IF GuardOf(W, t, a, mv, force) # ""
    THEN Refused(W, t, GuardOf(W, t, a, mv, force))
    ELSE IF ImmunityOf(W, t, status, a, mv) # ""
    THEN Refused(W, t, ImmunityOf(W, t, status, a, mv))
    ELSE
    LET I  == Inflict(W, t, status, a, mv, turns, Head(rs))
        S  == IF AbilityVs(I.W.poke[t], a, mv) = "SYNCHRONIZE" /\ a # 0
              THEN LET C2 == ApplyStatusNoSynchronize(I.W, a, status, t, "None",
                                                      None, TRUE, Tail(rs))
                   IN  IF Ability(C2.W.poke[a]) = "SYNCHRONIZE"
                          /\ C2.W.nv[a].current = status
                       THEN LET C3 == ApplyStatusNoSynchronize(C2.W, t, status, a,
                                          "None", None, TRUE, rs)
                                C4 == ApplyStatusNoSynchronize(C3.W, a, status, t,
                                          "None", None, FALSE, rs)
                            IN  [W |-> C4.W, msg |-> C2.msg \o C3.msg \o C4.msg]
                       ELSE C2
              ELSE [W |-> I.W, msg |-> <<>>]
        B  == IF ShouldEatBerryStatus(S.W, t, a)
              THEN EatBerry(S.W, t, 0, a, mv)
              ELSE [W |-> S.W, msg |-> <<>>]
    IN  [W |-> B.W, msg |-> I.msg \o S.msg \o B.msg]

RECURSIVE ApplyStatus(_, _, _, _, _, _, _, _)

\* NonVolatileEffect.apply_status(status, battle, attacker=a, move=mv,
\* turns=turns, force=force) of creature t; a = 0 stands for attacker None,
\* mv is "None", "move" or "bypass" (a move not affected by substitute), rs the
\* values the calls of random.randint(2, 4) draw, outermost call first
ApplyStatus(W, t, status, a, mv, turns, force, rs) ==
    IF GuardOf(W, t, a, mv, force) # ""
    THEN Refused(W, t, GuardOf(W, t, a, mv, force))
    ELSE IF ImmunityOf(W, t, status, a, mv) # ""
    THEN Refused(W, t, ImmunityOf(W, t, status, a, mv))
    ELSE
    LET I == Inflict(W, t, status, a, mv, turns, Head(rs))
        S == IF AbilityVs(I.W.poke[t], a, mv) = "SYNCHRONIZE" /\ a # 0
             THEN ApplyStatus(I.W, a, status, t, "None", None, FALSE, Tail(rs))
             ELSE [W |-> I.W, msg |-> <<>>]
        B == IF ShouldEatBerryStatus(S.W, t, a)
             THEN EatBerry(S.W, t, 0, a, mv)
             ELSE [W |-> S.W, msg |-> <<>>]
    IN  [W |-> B.W, msg |-> I.msg \o S.msg \o B.msg]

\* --- the status specification: one apply_status or eat_berry call made in
\* --- each state of an enumerated family of battle states

\* the abilities misc.py tests in apply_status, get and eat_berry
StatusAbilities ==
    { "NONE", "COMATOSE", "PURIFYING_SALT", "LEAF_GUARD", "FLOWER_VEIL",
      "WATER_VEIL", "WATER_BUBBLE", "INSOMNIA", "VITAL_SPIRIT", "SWEET_VEIL",
      "EARLY_BIRD", "IMMUNITY", "PASTEL_VEIL", "LIMBER", "MAGMA_ARMOR",
      "SYNCHRONIZE", "KLUTZ", "RIPEN", "CHEEK_POUCH", "CUD_CHEW" }

\* the types apply_status tests
ImmuneTypes == {"FIRE", "STEEL", "POISON", "ELECTRIC", "ICE", "GRASS"}

\* ability, types and species of the creature the call is made on
StatusTraits ==
    { <<ab, {"NORMAL"}, "Eevee">> : ab \in StatusAbilities }
    \cup { <<ab, {ty}, "Eevee">> : ab \in {"NONE", "SYNCHRONIZE"}, ty \in ImmuneTypes }
    \cup { <<"FLOWER_VEIL", {"GRASS"}, "Eevee">>, <<"WATER_VEIL", {"FIRE"}, "Eevee">>,
           <<"NONE", {"STEEL", "POISON"}, "Eevee">>,
           <<"NONE", {"ROCK", "FLYING"}, "Minior">> }

\* the item it holds
StatusItems ==
    { "None", "aspear-berry", "cheri-berry", "chesto-berry", "pecha-berry",
      "rawst-berry", "lum-berry", "persim-berry", "sitrus-berry", "leftovers" }

\* the status it has: none, each status, a burn forced over a running sleep
NvStates ==
    { NoStatus,
      [current |-> "burn", sleep_timer |-> 0, badly_poisoned_turn |-> 0],
      [current |-> "sleep", sleep_timer |-> 3, badly_poisoned_turn |-> 0],
      [current |-> "poison", sleep_timer |-> 0, badly_poisoned_turn |-> 0],
      [current |-> "b-poison", sleep_timer |-> 0, badly_poisoned_turn |-> 2],
      [current |-> "paralysis", sleep_timer |-> 0, badly_poisoned_turn |-> 0],
      [current |-> "freeze", sleep_timer |-> 0, badly_poisoned_turn |-> 0],
      [current |-> "burn", sleep_timer |-> 2, badly_poisoned_turn |-> 0] }

\* its surroundings: nothing in the way
ClearField ==
    [ substitute |-> FALSE, safeguard |-> FALSE, grounded |-> TRUE,
      terrain |-> "None", weather |-> "", uproar |-> 0, hp |-> 100,
      embargo |-> FALSE, confusion |-> 0, nightmare |-> FALSE ]

\* its surroundings: one condition at a time
StatusFields ==
    { ClearField,
      [ClearField EXCEPT !.substitute = TRUE],
      [ClearField EXCEPT !.safeguard = TRUE],
      [ClearField EXCEPT !.terrain = "misty"],
      [ClearField EXCEPT !.terrain = "misty", !.grounded = FALSE],
      [ClearField EXCEPT !.terrain = "electric"],
      [ClearField EXCEPT !.weather = "sun"],
      [ClearField EXCEPT !.weather = "h-sun"],
      [ClearField EXCEPT !.weather = "rain"],
      [ClearField EXCEPT !.uproar = 1],
      [ClearField EXCEPT !.uproar = 2],
      [ClearField EXCEPT !.hp = 0],
      [ClearField EXCEPT !.hp = 40],
      [ClearField EXCEPT !.embargo = TRUE],
      [ClearField EXCEPT !.confusion = 2],
      [ClearField EXCEPT !.nightmare = TRUE] }

\* the other creature: nothing of interest
PlainOther ==
    [ability |-> "NONE", types |-> {"NORMAL"}, item |-> "None", nv |-> NoStatus]

\* the other creature: one trait at a time
StatusOthers ==
    { PlainOther }
    \cup { [PlainOther EXCEPT !.ability = ab] :
             ab \in {"CORROSION", "INFILTRATOR", "SYNCHRONIZE", "UNNERVE",
                     "POISON_PUPPETEER", "CLOUD_NINE", "WATER_VEIL"} }
    \cup { [PlainOther EXCEPT !.types = {ty}] : ty \in {"FIRE", "STEEL", "ELECTRIC"} }
    \cup { [PlainOther EXCEPT !.item = it] : it \in {"rawst-berry", "lum-berry"} }
    \cup { [PlainOther EXCEPT !.ability = "SYNCHRONIZE", !.item = "chesto-berry"],
           [PlainOther EXCEPT !.nv.current = "paralysis"] }

\* the pairs of surroundings and other creature of the status specification:
\* each condition with a plain other creature, each other creature on a clear
\* field, and the pairs whose two halves meet in one test of apply_status
StatusEnvs ==
    { <<f, PlainOther>> : f \in StatusFields }
    \cup { <<ClearField, o>> : o \in StatusOthers }
    \cup { <<[ClearField EXCEPT !.safeguard = TRUE],
             [PlainOther EXCEPT !.ability = "INFILTRATOR"]>>,
           <<[ClearField EXCEPT !.weather = "sun"],
             [PlainOther EXCEPT !.ability = "CLOUD_NINE"]>>,
           <<[ClearField EXCEPT !.substitute = TRUE],
             [PlainOther EXCEPT !.ability = "SYNCHRONIZE"]>> }

\* the creature a call of the status specification is made on, and the other
StatusPoke(tr, f) ==
    [DefaultPoke EXCEPT
        !.ability = tr[1], !.types = tr[2], !.name = tr[3],
        !.substitute = f.substitute, !.safeguard = f.safeguard,
        !.grounded = f.grounded, !.uproar = (f.uproar = 1), !.hp = f.hp,
        !.embargo = f.embargo, !.confusion = f.confusion,
        !.nightmare = f.nightmare]

OtherPoke(o, f) ==
    [DefaultPoke EXCEPT
        !.ability = o.ability, !.types = o.types, !.name = "Eevee",
        !.uproar = (f.uproar = 2)]

\* the traits met with every pair of surroundings and other creature
CoreTraits ==
    { <<"NONE", {"NORMAL"}, "Eevee">>, <<"SYNCHRONIZE", {"NORMAL"}, "Eevee">>,
      <<"NONE", {"FIRE"}, "Eevee">>, <<"NONE", {"STEEL"}, "Eevee">>,
      <<"LEAF_GUARD", {"NORMAL"}, "Eevee">> }

\* the battles of the status specification: every trait on a clear field with
\* a plain other creature, and the core traits in every pair of StatusEnvs
StatusScenes ==
    { <<tr, ClearField, PlainOther>> : tr \in StatusTraits }
    \cup { <<tr, e[1], e[2]>> : tr \in CoreTraits, e \in StatusEnvs }

StatusInit ==
    /\ TimerIdle
    /\ DataIdle
    /\ \E sc \in StatusScenes, it \in StatusItems, st \in NvStates :
          /\ poke = [s \in Slots |->
                       IF s = 1 THEN StatusPoke(sc[1], sc[2]) ELSE OtherPoke(sc[3], sc[2])]
          /\ held = [s \in Slots |-> NewHeld(IF s = 1 THEN it ELSE sc[3].item)]
          /\ nv = [s \in Slots |-> IF s = 1 THEN st ELSE sc[3].nv]
          /\ battle = [magic_room |-> FALSE, terrain |-> sc[2].terrain]
          /\ weather = IF sc[2].weather = "" THEN NoWeather
                       ELSE [type |-> sc[2].weather,
                             turns |-> SetTurnsOf(sc[2].weather, 2)]
    /\ last = NoCall

\* the attacker and move of a call on creature t: none, the creature itself
\* (an orb, Rest), the other creature with or without a move
Attacks(t) ==
    { <<0, "None">>, <<t, "None">>, <<t, "move">>,
      <<Other(t), "None">>, <<Other(t), "move">>, <<Other(t), "bypass">> }

\* the explicit sleep durations handed to apply_status
SleepTurns == {None, 1, 3}

\* the values random.randint(2, 4) can draw
SleepDraws == 2 .. 4

\* a call of apply_status on creature t with the draws rs; last.was keeps the
\* status the creature had when the call was made
ApplyStatusCall(t, status, a, mv, turns, force, rs) ==
    /\ UNCHANGED <<timerVars, dataVars, battle, weather>>
    /\ LET R == ApplyStatus(World, t, status, a, mv, turns, force, rs)
       IN  /\ poke' = R.W.poke
           /\ held' = R.W.held
           /\ nv' = R.W.nv
           /\ last' = [op |-> "apply_status", target |-> t, status |-> status,
                       attacker |-> a, move |-> mv, turns |-> turns,
                       force |-> force, was |-> nv[t], ret |-> R.msg]

\* a call of eat_berry on creature o's item
EatBerryCall(o, c, a, mv) ==
    /\ UNCHANGED <<timerVars, dataVars, battle, weather>>
    /\ LET R == EatBerry(World, o, c, a, mv)
       IN  /\ poke' = R.W.poke
           /\ held' = R.W.held
           /\ nv' = R.W.nv
           /\ last' = [op |-> "eat_berry", target |-> o, consumer |-> c,
                       attacker |-> a, move |-> mv, was |-> nv[o], ret |-> R.msg]

\* a status other than sleep is inflicted without a draw
ApplyOther ==
    /\ last.op = "init"
    /\ \E status \in Statuses \ {"sleep"}, force \in BOOLEAN, am \in Attacks(1) :
          ApplyStatusCall(1, status, am[1], am[2], None, force, <<2, 2>>)

\* sleep draws its duration when none is given, once more for Synchronize
ApplySleep ==
    /\ last.op = "init"
    /\ \E turns \in SleepTurns, force \in BOOLEAN, am \in Attacks(1),
          r1 \in SleepDraws, r2 \in SleepDraws :
          /\ turns # None => r1 = 2
          /\ (Ability(poke[1]) # "SYNCHRONIZE" \/ am[1] # 2) => r2 = 2
          /\ ApplyStatusCall(1, "sleep", am[1], am[2], turns, force, <<r1, r2>>)

\* the creature's berry is eaten by itself (consumer None or the holder) or
\* by the other creature
EatAny ==
    /\ last.op = "init"
    /\ \E c \in {0, 1, 2}, am \in Attacks(1) : EatBerryCall(1, c, am[1], am[2])

StatusNext ==
    \/ ApplyOther
    \/ ApplySleep
    \/ EatAny

SpecStatus == StatusInit /\ [][StatusNext]_vars

\* C4: Weather.set(w, setter) with w the stored weather, or with w ordinary
\* while the stored weather is heavy, returns the empty message and changes
\* neither the weather type, nor the remaining turns, nor any creature.
C4_SetSameOrBlockedIsNoOp ==
    [][ ( /\ last'.op = "set"
          /\ \/ last'.w = weather.type
             \/ last'.w \in OrdinaryWeathers /\ weather.type \in HeavyWeathers )
        => ( /\ last'.ret = <<>> /\ last'.exc = "None"
             /\ weather' = weather
             /\ poke' = poke )
      ]_vars

\* C4 witness: sun was requested under h-sun by a creature whose visible item
\* is heat-rock, while a Forecast Castform is on the field
C4_Witness ==
    /\ last.op = "set" /\ last.w = "sun" /\ last.ret = <<>>
    /\ weather.type = "h-sun" /\ weather.turns = None
    /\ HeldGet(last.by) = "heat-rock"
    /\ \E t \in Slots : poke[t].name = "Castform-sunny"

\* the requested weather is installed: a weather name, not the stored one and
\* not an ordinary weather under a heavy one
Installs(w) ==
    /\ w \in OrdinaryWeathers \cup HeavyWeathers
    /\ w # weather.type
    /\ ~(w \in OrdinaryWeathers /\ weather.type \in HeavyWeathers)

\* C5 as stated: an installed weather gets 8 turns when the setting creature
\* holds the matching rock, 5 otherwise, None when it is heavy.
C5_TurnsByHeldRock ==
    [][ (last'.op = "set" /\ Installs(last'.w))
        => ( /\ weather'.type = last'.w
             /\ weather'.turns =
                  IF last'.w \in HeavyWeathers THEN None
                  ELSE IF \/ last'.w = "hail" /\ held[last'.by].item = "icy-rock"
                          \/ last'.w = "sandstorm" /\ held[last'.by].item = "smooth-rock"
                          \/ last'.w = "rain" /\ held[last'.by].item = "damp-rock"
                          \/ last'.w = "sun" /\ held[last'.by].item = "heat-rock"
                       THEN 8 ELSE 5 )
      ]_vars

\* C5 amended: an installed weather becomes the stored type and gets 8 turns
\* when the matching rock is the setting creature's visible item (held and not
\* suppressed by Embargo, Magic Room, Klutz or corrosive gas), 5 turns for the
\* four ordinary weathers otherwise, and None for h-rain, h-sun and h-wind.
C5_TurnsByVisibleRock ==
    [][ (last'.op = "set" /\ Installs(last'.w))
        => ( /\ weather'.type = last'.w
             /\ weather'.turns =
                  IF last'.w \in HeavyWeathers THEN None
                  ELSE IF \/ last'.w = "hail" /\ HeldGet(last'.by) = "icy-rock"
                          \/ last'.w = "sandstorm" /\ HeldGet(last'.by) = "smooth-rock"
                          \/ last'.w = "rain" /\ HeldGet(last'.by) = "damp-rock"
                          \/ last'.w = "sun" /\ HeldGet(last'.by) = "heat-rock"
                       THEN 8 ELSE 5 )
      ]_vars

\* C5 witness: a sandstorm was installed for 8 turns by a smooth-rock holder
C5_Witness ==
    /\ last.op = "set" /\ last.w = "sandstorm" /\ last.exc = "None"
    /\ weather.type = "sandstorm" /\ weather.turns = 8
    /\ HeldGet(last.by) = "smooth-rock"

\* the message ret has a line saying that creature t got the status
InflictedIn(ret, t, status) ==
    \E i \in 1 .. Len(ret) : ret[i] = [who |-> t, what |-> InflictedMsg(status)]

\* the berry whose cure test is the status
CureBerryOf(status) ==
    CASE status = "freeze"                -> "aspear-berry"
      [] status = "paralysis"             -> "cheri-berry"
      [] status = "sleep"                 -> "chesto-berry"
      [] status \in {"poison", "b-poison"} -> "pecha-berry"
      [] status = "burn"                  -> "rawst-berry"

\* C6: after an apply_status call that narrates that the target was burned,
\* fell asleep, was poisoned, was paralyzed or was frozen, the target's
\* nv.current is one of the six statuses, never empty, whatever item, ability
\* and attacker are involved.
C6_InflictedStatusIsSet ==
    [][ ( /\ last'.op = "apply_status"
          /\ InflictedIn(last'.ret, last'.target, last'.status) )
        => nv'[last'.target].current \in Statuses
      ]_vars

\* C6 amended: after an apply_status call that narrates the infliction, the
\* target's nv.current is the inflicted status, unless the target's visible
\* item is the berry curing that status or lum-berry and the target may eat it
\* (hp not 0, attacker without Unnerve or As One): then the berry is eaten
\* within the call, and on return the status is empty with its timer and
\* counter reset and the item slot is empty.
C6_InflictedStatusSetUnlessBerryEaten ==
    [][ ( /\ last'.op = "apply_status"
          /\ InflictedIn(last'.ret, last'.target, last'.status) )
        => LET t == last'.target
               a == last'.attacker
           IN  IF /\ HeldGet(t) \in {CureBerryOf(last'.status), "lum-berry"}
                  /\ poke[t].hp # 0
                  /\ ~( /\ a # 0
                        /\ Ability(poke[a]) \in {"UNNERVE", "AS_ONE_SHADOW",
                                                 "AS_ONE_ICE"} )
               THEN nv'[t] = NoStatus /\ held'[t].item = "None"
               ELSE nv'[t].current = last'.status
      ]_vars

\* C6 witness: a burn was inflicted on a rawst-berry holder, which ate the
\* berry in the same call and has no status when the call returns
C6_Witness ==
    /\ last.op = "apply_status" /\ last.status = "burn" /\ last.target = 1
    /\ last.was.current = ""
    /\ last.ret = Msg(1, "was burned")
                  \o Msg(1, "is no longer burned after eating its berry")
    /\ nv[1].current = ""
    /\ held[1].item = "None" /\ held[1].last_used = "rawst-berry"

\* C7: when the target already has a status, apply_status without force
\* returns the "already has a status" message and changes nothing: the
\* target's status, sleep timer and bad-poison counter, the held items, and
\* the attacker (no Synchronize, no berry eaten) are as before.
C7_SecondStatusIsNoOp ==
    [][ ( /\ last'.op = "apply_status"
          /\ nv[last'.target].current # ""
          /\ ~last'.force )
        => ( /\ last'.ret = Msg(last'.target, "already has a status")
             /\ nv' = nv
             /\ held' = held
             /\ poke' = poke )
      ]_vars

\* C7 witness: sleep was refused to a paralysed Synchronize creature holding a
\* cheri-berry, attacked by the other creature
C7_Witness ==
    /\ last.op = "apply_status" /\ last.status = "sleep" /\ ~last.force
    /\ last.attacker = 2 /\ last.move = "move"
    /\ last.was.current = "paralysis"
    /\ Ability(poke[1]) = "SYNCHRONIZE"
    /\ last.ret = Msg(1, "already has a status")
    /\ nv[1].current = "paralysis" /\ nv[2].current = ""
    /\ held[1].item = "cheri-berry"

\* C8: when the holder's visible item is a status-cure berry and the holder
\* has the status the berry cures (aspear/freeze, cheri/paralysis,
\* chesto/sleep, pecha/poison or bad poison, rawst/burn), eat_berry by the
\* holder leaves nv.current empty, the sleep timer and the bad-poison counter
\* reset, and the item slot empty.
C8_MatchingBerryCures ==
    [][ ( /\ last'.op = "eat_berry"
          /\ last'.consumer \in {0, last'.target}
          /\ nv[last'.target].current \in Statuses
          /\ HeldGet(last'.target) = CureBerryOf(nv[last'.target].current) )
        => ( /\ nv'[last'.target] = NoStatus
             /\ held'[last'.target].item = "None" )
      ]_vars

\* C8 witness: a badly poisoned creature whose counter had reached 2 ate its
\* pecha-berry
C8_Witness ==
    /\ last.op = "eat_berry" /\ last.consumer = 0 /\ last.target = 1
    /\ last.was = [current |-> "b-poison", sleep_timer |-> 0,
                   badly_poisoned_turn |-> 2]
    /\ last.ret = Msg(1, "is no longer poisoned after eating its berry")
    /\ nv[1] = NoStatus
    /\ held[1].item = "None" /\ held[1].last_used = "pecha-berry"

\* the condition-curing berries
CuringBerries == StatusBerries \cup {"persim-berry", "lum-berry"}

\* creature c has a condition the berry cures, as eat_berry tests it
HasCuredCondition(c, berry) ==
    IF berry \in StatusBerries THEN Cures(World, berry, c)
    ELSE IF berry = "persim-berry" THEN poke[c].confusion # 0
    ELSE \/ NvBurn(World, c) \/ NvSleep(World, c) \/ NvPoison(World, c)
         \/ NvParalysis(World, c) \/ NvFreeze(World, c)
         \/ poke[c].confusion # 0

\* C9: a condition-curing berry (aspear, cheri, chesto, pecha, rawst, persim,
\* lum) eaten while the consumer has no condition the berry cures makes
\* eat_berry narrate "had no effect", leaves the consumer's status unchanged
\* and empties the item slot.
C9_NoMatchHasNoEffect ==
    [][ ( /\ last'.op = "eat_berry"
          /\ HeldGet(last'.target) \in CuringBerries
          /\ ~HasCuredCondition(
                 IF last'.consumer = 0 THEN last'.target ELSE last'.consumer,
                 HeldGet(last'.target)) )
        => LET c == IF last'.consumer = 0 THEN last'.target ELSE last'.consumer
           IN  /\ \E i \in 1 .. Len(last'.ret) :
                     last'.ret[i] = [who |-> c, what |-> "berry had no effect"]
               /\ nv'[c] = nv[c]
               /\ held'[last'.target].item = "None"
      ]_vars

\* C10: for a fire-type creature with no status, apply_status("burn") sets no
\* status, for every attacker, move and force value, and when no earlier guard
\* (exclusivity, ability, substitute, safeguard, misty terrain, Minior)
\* applies the message is that the target is a fire type and can't be burned.
C10_FireTypeIsNeverBurned ==
    [][ ( last'.op = "apply_status" /\ last'.status = "burn" )
        => ( /\ \A s \in Slots :
                  ("FIRE" \in poke[s].types /\ nv[s].current = "")
                  => nv'[s].current = ""
             /\ ( /\ "FIRE" \in poke[last'.target].types
                  /\ nv[last'.target].current = ""
                  /\ GuardOf(World, last'.target, last'.attacker, last'.move,
                             last'.force) = "" )
                => last'.ret = Msg(last'.target,
                                   "is a fire type and can't be burned") )
      ]_vars

\* C10 witness: a forced burn by the other creature's move was refused to a
\* fire-type rawst-berry holder without a status
C10_Witness ==
    /\ last.op = "apply_status" /\ last.status = "burn" /\ last.target = 1
    /\ last.force /\ last.attacker = 2 /\ last.move = "move"
    /\ "FIRE" \in poke[1].types
    /\ last.was.current = ""
    /\ last.ret = Msg(1, "is a fire type and can't be burned")
    /\ nv[1].current = ""
    /\ held[1].item = "rawst-berry"

\* ------------------------------------------------------------------------
\* HeldItem.activate_on_damage (lines 769-829): the item triggers of a hit.
\* ------------------------------------------------------------------------

\* the creature of the damage specification: DefaultPoke with the stat stages
\* and the owner's mid_turn_remove flag the triggers write
DamageDefault ==
    DefaultPoke @@ [attack_stage |-> 0, spatk_stage |-> 0, mid_turn_remove |-> FALSE]

\* Pokemon.damage: hit points taken off, never below 0
DamageOf(W, t, amount) ==
    LET hp == W.poke[t].hp
    IN  [W   |-> [W EXCEPT !.poke[t].hp = IF hp > amount THEN hp - amount ELSE 0],
         msg |-> Msg(t, "took damage")]

\* Pokemon.append_attack and append_spatk: the stage raised, at most to 6
AppendAttack(W, t, n) ==
    LET to == IF W.poke[t].attack_stage + n > 6 THEN 6
              ELSE W.poke[t].attack_stage + n
    IN  [W |-> [W EXCEPT !.poke[t].attack_stage = to], msg |-> Msg(t, "attack rose")]

AppendSpatk(W, t, n) ==
    LET to == IF W.poke[t].spatk_stage + n > 6 THEN 6
              ELSE W.poke[t].spatk_stage + n
    IN  [W |-> [W EXCEPT !.poke[t].spatk_stage = to], msg |-> Msg(t, "sp. atk rose")]

\* no move given, and the moves of a hit: is_super_effective and makes_contact
\* are "absent" when the move object has no such attribute
NoMove == [given |-> FALSE, super |-> "absent", contact |-> "absent", class |-> 0]

DamageMoves ==
    { NoMove,
      [given |-> TRUE, super |-> "absent", contact |-> "absent", class |-> 1],
      [given |-> TRUE, super |-> "yes", contact |-> "yes", class |-> 2],
      [given |-> TRUE, super |-> "no", contact |-> "yes", class |-> 2],
      [given |-> TRUE, super |-> "yes", contact |-> "no", class |-> 3],
      [given |-> TRUE, super |-> "no", contact |-> "no", class |-> 3] }

\* the survival test with the full-health condition left out
SurvivesKOAnyHp(W, o, damage_taken) == damage_taken >= W.poke[o].hp

\* the survival test of Focus Sash and Focus Band (line 774)
SurvivesKO(W, o, damage_taken) ==
    /\ damage_taken >= W.poke[o].hp
    /\ W.poke[o].hp = W.poke[o].starting_hp

\* the k-th trigger after the survival block (lines 785-827) in the world W,
\* each reading get() again; a = 0 stands for attacker None
TriggerOf(k, W, o, a, mv) ==
    LET vis  == HeldGetOf(W.held[o], W.poke[o])
        Keep == [W |-> W, msg |-> <<>>]
    IN  CASE k = 1 ->   \* Weakness Policy
               IF vis = "weakness-policy" /\ mv.given /\ a # 0 /\ mv.super = "yes"
               THEN LET A1 == AppendAttack(W, o, 2)
                        A2 == AppendSpatk(A1.W, o, 2)
                    IN  [W |-> UseIn(A2.W, o), msg |-> A1.msg \o A2.msg]
               ELSE Keep
          [] k = 2 ->   \* Air Balloon
               IF vis = "air-balloon" /\ a # 0 /\ mv.given
               THEN [W |-> UseIn(W, o), msg |-> Msg(o, "Air Balloon popped")]
               ELSE Keep
          [] k = 3 ->   \* Rocky Helmet
               IF vis = "rocky-helmet" /\ a # 0 /\ mv.given /\ mv.contact = "yes"
               THEN DamageOf(W, a, W.poke[a].starting_hp \div 6)
               ELSE Keep
          [] k = 4 ->   \* Jaboca Berry
               IF vis = "jaboca-berry" /\ mv.given /\ mv.class = 2 /\ a # 0
               THEN LET D == DamageOf(W, a, W.poke[a].starting_hp \div 8)
                    IN  [W |-> UseIn(D.W, o), msg |-> D.msg]
               ELSE Keep
          [] k = 5 ->   \* Rowap Berry
               IF vis = "rowap-berry" /\ mv.given /\ mv.class = 3 /\ a # 0
               THEN LET D == DamageOf(W, a, W.poke[a].starting_hp \div 8)
                    IN  [W |-> UseIn(D.W, o), msg |-> D.msg]
               ELSE Keep
          [] k = 6 ->   \* Red Card
               IF /\ vis = "red-card" /\ a # 0 /\ mv.given /\ mv.contact = "yes"
                  /\ ~W.poke[a].substitute
               THEN [W   |-> UseIn([W EXCEPT !.poke[a].mid_turn_remove = TRUE], o),
                     msg |-> Msg(a, "was forced to switch by the Red Card")]
               ELSE Keep
          [] k = 7 ->   \* Eject Button
               IF vis = "eject-button" /\ a # 0 /\ mv.given
               THEN [W   |-> UseIn([W EXCEPT !.poke[o].mid_turn_remove = TRUE], o),
                     msg |-> Msg(o, "is forced to switch by its Eject Button")]
               ELSE Keep

RECURSIVE Triggers(_, _, _, _, _)

\* the triggers k, k+1, ... run in order on the result R of the earlier ones,
\* each on the world the one before left, their messages appended
Triggers(k, R, o, a, mv) ==
    IF k > 7 THEN R
    ELSE LET Step(r) ==
                 LET T == TriggerOf(k, r.W, o, a, mv)
                 IN  [W |-> T.W, msg |-> r.msg \o T.msg]
         IN  CHOOSE X \in { Triggers(k + 1, Step(r), o, a, mv) : r \in {R} } : TRUE

\* the triggers after the survival block (lines 785-827)
OtherTriggers(W, o, a, mv) == Triggers(1, [W |-> W, msg |-> <<>>], o, a, mv)

\* HeldItem.activate_on_damage(damage_taken, attacker=a, move=mv) of creature
\* o's item; r is the value random.randint(1, 10) draws
ActivateOnDamage(W, o, damage_taken, a, mv, r) ==
    LET vis == HeldGetOf(W.held[o], W.poke[o])
    IN  IF SurvivesKO(W, o, damage_taken) /\ vis = "focus-sash"
        THEN [W   |-> UseIn([W EXCEPT !.poke[o].hp = 1], o),
              msg |-> Msg(o, "held on with its Focus Sash")]
        ELSE IF SurvivesKO(W, o, damage_taken) /\ vis = "focus-band" /\ r = 1
        THEN [W   |-> [W EXCEPT !.poke[o].hp = 1],
              msg |-> Msg(o, "held on with its Focus Band")]
        ELSE OtherTriggers(W, o, a, mv)

\* --- the damage specification: hits on creature 1 in enumerated states

\* the items activate_on_damage tests, no item and an item it ignores
DamageItems ==
    { "None", "focus-sash", "focus-band", "weakness-policy", "air-balloon",
      "rocky-helmet", "jaboca-berry", "rowap-berry", "red-card", "eject-button",
      "leftovers" }

\* hp and starting_hp of the creature hit
DamageHps == { <<100, 100>>, <<99, 100>>, <<1, 100>>, <<1, 1>>, <<40, 40>> }

\* what hides the creature's item
Suppressors == {"none", "embargo", "klutz", "corrosive_gas", "magic_room"}

\* the damage of a hit
DamageTaken == {0, 40, 100, 150}

\* draws of random.randint(1, 10): the one that saves, and two that do not
BandDraws == {1, 2, 10}

DamageInit ==
    /\ TimerIdle
    /\ DataIdle
    /\ \E it \in DamageItems, h \in DamageHps, su \in Suppressors, sub \in BOOLEAN :
          /\ poke = [s \in Slots |->
                       IF s = 1
                       THEN [DamageDefault EXCEPT
                               !.hp = h[1], !.starting_hp = h[2],
                               !.embargo = (su = "embargo"),
                               !.corrosive_gas = (su = "corrosive_gas"),
                               !.ability = IF su = "klutz" THEN "KLUTZ" ELSE "NONE"]
                       ELSE [DamageDefault EXCEPT !.substitute = sub]]
          /\ held = [s \in Slots |-> NewHeld(IF s = 1 THEN it ELSE "None")]
          /\ battle = [magic_room |-> (su = "magic_room"), terrain |-> "None"]
    /\ nv = [s \in Slots |-> NoStatus]
    /\ weather = NoWeather
    /\ last = NoCall

\* a call of activate_on_damage on creature o's item; last keeps the arguments
\* and what the call returned
ActivateOnDamageCall(o, damage_taken, a, mv, r) ==
    /\ UNCHANGED <<timerVars, dataVars, nv, battle, weather>>
    /\ LET R == ActivateOnDamage(World, o, damage_taken, a, mv, r)
       IN  /\ poke' = R.W.poke
           /\ held' = R.W.held
           /\ last' = [op |-> "activate_on_damage", target |-> o,
                       damage |-> damage_taken, attacker |-> a, move |-> mv,
                       draw |-> r, ret |-> R.msg]

\* a hit in the initial state or after a hit that triggered something: a hit
\* that triggered nothing left the creatures and items as they were, and the
\* hits made from there are the hits made from the state before it
DamageNext ==
    \E d \in DamageTaken, a \in {0, 2}, mv \in DamageMoves, r \in BandDraws :
        /\ IF last.op = "init" THEN TRUE ELSE last.ret # <<>>
        /\ HeldGet(1) # "focus-band" => r = 1
        /\ ActivateOnDamageCall(1, d, a, mv, r)

SpecDamage == DamageInit /\ [][DamageNext]_vars

\* C11: activate_on_damage on a creature at exactly full HP whose visible item
\* is focus-sash, with damage_taken >= its HP, sets its HP to 1, consumes the
\* sash (item None, last_used the sash), returns the single line that it held
\* on and runs no other trigger; below full HP the sash does nothing and is
\* not consumed.
C11_FocusSashAtFullHp ==
    [][ ( last'.op = "activate_on_damage" /\ HeldGet(last'.target) = "focus-sash" )
        => LET t == last'.target
           IN  /\ ( poke[t].hp = poke[t].starting_hp /\ last'.damage >= poke[t].hp )
                  => ( /\ poke' = [poke EXCEPT ![t].hp = 1, ![t].choice_move = "None"]
                       /\ held' = [held EXCEPT ![t].item = "None",
                                               ![t].last_used = "focus-sash"]
                       /\ last'.ret = Msg(t, "held on with its Focus Sash") )
               /\ poke[t].hp < poke[t].starting_hp
                  => ( poke' = poke /\ held' = held /\ last'.ret = <<>> )
      ]_vars

\* C11 witness: a creature at 100/100 took 150 damage and held on with its
\* sash, hit by a contact move of the other creature
C11_Witness ==
    /\ last.op = "activate_on_damage" /\ last.target = 1 /\ last.damage = 150
    /\ last.attacker = 2 /\ last.move.contact = "yes"
    /\ last.ret = Msg(1, "held on with its Focus Sash")
    /\ poke[1].hp = 1 /\ poke[1].starting_hp = 100
    /\ held[1].item = "None" /\ held[1].last_used = "focus-sash"

\* C12: in every state reached by use, remove, transfer, swap and recover,
\* every slot that holds an item, or held one earlier, has ever_had_item true:
\* a slot with an item has the flag, and the flag never goes from true to
\* false.
C12_EverHadItemTracksItems ==
    /\ [](\A s \in Slots : held[s].item # "None" => held[s].ever_had_item)
    /\ [][\A s \in Slots : held[s].ever_had_item => held'[s].ever_had_item]_vars

\* C13: for every string that is not one of the seven weathers, Weather.set
\* raises the invalid-argument error whatever the stored weather is, no weather
\* included, and leaves the weather type, the remaining turns and the
\* creatures' forms unchanged.
C13_UnknownWeatherRaises ==
    [][ ( last'.op = "set" /\ last'.w \notin OrdinaryWeathers \cup HeavyWeathers )
        => ( /\ last'.exc = "ValueError"
             /\ weather' = weather
             /\ poke' = poke )
      ]_vars

\* ------------------------------------------------------------------------
\* generate_text_battle_message (data.py 476-503): battle.msg sent in pages.
\*
\* battle.msg is the sequence of its lines, each written with its "\n"; a line
\* is [lead |-> its leading spaces, body |-> the characters after them], and
\* a line of body 0 is blank.  A page is the sequence of the lines of its
\* text.
\* ------------------------------------------------------------------------

\* the character budget of a page (line 487)
PageBudget == 2000

\* the longest buffer of the text specification, in lines
MaxLines == 3

LineLen(l) == l.lead + l.body

BlankLine == [lead |-> 0, body |-> 0]

RECURSIVE StripLeft(_)
\* str.lstrip(): the blank lines and the leading spaces in front are removed
StripLeft(lines) ==
    IF lines = <<>> THEN <<>>
    ELSE IF Head(lines).body = 0 THEN StripLeft(Tail(lines))
    ELSE <<[Head(lines) EXCEPT !.lead = 0]>> \o Tail(lines)

RECURSIVE StripRight(_)
\* str.rstrip(): the newlines and the blank lines at the end are removed
StripRight(lines) ==
    IF lines = <<>> THEN <<>>
    ELSE IF lines[Len(lines)].body = 0
         THEN StripRight(SubSeq(lines, 1, Len(lines) - 1))
    ELSE lines

\* str.strip()
Strip(lines) == StripRight(StripLeft(lines))

\* str.split("\n") of a stripped text: the empty text gives one empty part
SplitLines(lines) == IF lines = <<>> THEN <<BlankLine>> ELSE lines

RECURSIVE RawLen(_)
\* len(page) of the page being filled: every part with its "\n"
RawLen(lines) ==
    IF lines = <<>> THEN 0 ELSE LineLen(Head(lines)) + 1 + RawLen(Tail(lines))

\* the number of characters of a page's text: its lines and the "\n" between
TextLen(lines) == IF lines = <<>> THEN 0 ELSE RawLen(lines) - 1

RECURSIVE Paging(_, _, _)
\* the loop of lines 486-492 over the parts left, with the page being filled
\* and the pages made so far
Paging(raw, page, pages) ==
    IF raw = <<>> THEN [page |-> page, pages |-> pages]
    ELSE IF RawLen(page) + LineLen(Head(raw)) > PageBudget
         THEN Paging(Tail(raw), <<Head(raw)>>, Append(pages, Strip(page)))
    ELSE Paging(Tail(raw), Append(page, Head(raw)), pages)

\* the pages generate_text_battle_message builds from battle.msg (lines 481-498)
PagesOf(msg) ==
    LET L == Paging(SplitLines(Strip(msg)), <<>>, <<>>)
    IN  IF Strip(L.page) # <<>> THEN Append(L.pages, Strip(L.page)) ELSE L.pages

\* the lengths of the lines of the text specification
TextLens == {0, 1, 999, 1000, 2000, 2001}

TextLines == { [lead |-> l, body |-> n] : l \in {0, 1}, n \in TextLens }

\* the buffers of at most n lines
BuffersUpTo(n) == UNION { [1 .. k -> TextLines] : k \in 0 .. n }

TextInit ==
    /\ TimerIdle
    /\ CreaturesIdle
    /\ BattleIdle
    /\ last = NoCall
    /\ \E m1 \in BuffersUpTo(MaxLines), m2 \in BuffersUpTo(1) :
          bmsg = [b \in Battles |-> IF b = 1 THEN m1 ELSE m2]
    /\ chan = [b \in Battles |-> <<>>]
    /\ task = [b \in Battles |-> IdleTask]
    /\ disk = NoFiles

\* generate_text_battle_message(battle) up to its first await: the pages are
\* built; task.msg keeps the buffer the call was made with
TextStart(b) ==
    /\ task[b].pc = "idle"
    /\ task' = [task EXCEPT ![b] = [pc |-> "sending", pages |-> PagesOf(bmsg[b]),
                                    i |-> 1, msg |-> bmsg[b]]]
    /\ UNCHANGED <<timerVars, poke, held, nv, battle, weather, last, bmsg, chan, disk>>

\* one await battle.channel.send(embed=page) of the loop of lines 500-501
TextSend(b) ==
    /\ task[b].pc = "sending"
    /\ task[b].i <= Len(task[b].pages)
    /\ chan' = [chan EXCEPT ![b] = Append(chan[b], task[b].pages[task[b].i])]
    /\ task' = [task EXCEPT ![b].i = task[b].i + 1]
    /\ UNCHANGED <<timerVars, poke, held, nv, battle, weather, last, bmsg, disk>>

\* the loop is over: battle.msg = "" (line 503) and the call returns
TextEnd(b) ==
    /\ task[b].pc = "sending"
    /\ task[b].i > Len(task[b].pages)
    /\ bmsg' = [bmsg EXCEPT ![b] = <<>>]
    /\ task' = [task EXCEPT ![b].pc = "done"]
    /\ UNCHANGED <<timerVars, poke, held, nv, battle, weather, last, chan, disk>>

TextNext ==
    \/ \E b \in Battles : TextStart(b)
    \/ \E b \in Battles : TextSend(b)
    \/ \E b \in Battles : TextEnd(b)

SpecText == TextInit /\ [][TextNext]_vars

RECURSIVE Flatten(_)
\* the lines of a sequence of pages, in order
Flatten(pages) ==
    IF pages = <<>> THEN <<>> ELSE Head(pages) \o Flatten(Tail(pages))

\* C14: for every buffer battle.msg, each page generate_text_battle_message
\* sends has at most 2000 characters, and every line of the buffer is whole,
\* in its original order, in exactly one page.
C14_PagesHoldEveryLineWithinBudget ==
    \A b \in Battles :
        task[b].pc = "done"
        => ( /\ \A i \in 1 .. Len(chan[b]) : TextLen(chan[b][i]) <= PageBudget
             /\ Flatten(chan[b]) = task[b].msg )

\* ------------------------------------------------------------------------
\* generate_team_preview and generate_main_battle_message (data.py 47-473):
\* the image of a battle is saved under a fixed name, opened, sent and removed.
\* Battles are coroutines of one event loop: a step runs from one await to the
\* next, and the steps of different battles interleave.
\* ------------------------------------------------------------------------

\* the calls a battle makes in the image specification
MaxRounds == 2

\* image_path of the two functions (lines 229 and 423)
PathOf(kind) == IF kind = "preview" THEN "team_preview.png" ELSE "battle_msg.png"

\* Image.save(image_path, "PNG"): an existing file is truncated and rewritten
\* in place, a missing one is created
SaveFile(d, path, content) ==
    IF d.names[path] # 0
    THEN [d EXCEPT !.data[d.names[path]] = content]
    ELSE [names |-> [d.names EXCEPT ![path] = Len(d.data) + 1],
          data  |-> Append(d.data, content)]

\* os.remove(image_path) inside try/except: the name is removed if it is
\* there; a file that is still open keeps its content
RemoveFile(d, path) == [d EXCEPT !.names[path] = 0]

ImageInit ==
    /\ TimerIdle
    /\ CreaturesIdle
    /\ BattleIdle
    /\ last = NoCall
    /\ bmsg = [b \in Battles |-> <<>>]
    /\ chan = [b \in Battles |-> <<>>]
    /\ task = [b \in Battles |-> [pc |-> "idle", round |-> 0]]
    /\ disk = NoFiles

\* the function up to its await (lines 47-243 and 254-463): the image drawn
\* from the battle's state is saved and opened with discord.File; fd is the
\* open file, image what was drawn
ImageRender(b, kind) ==
    /\ task[b].pc = "idle"
    /\ task[b].round < MaxRounds
    /\ LET content == [battle |-> b, round |-> task[b].round + 1]
           d2 == SaveFile(disk, PathOf(kind), content)
       IN  /\ disk' = d2
           /\ task' = [task EXCEPT ![b] =
                         [pc |-> "sending", round |-> task[b].round + 1,
                          kind |-> kind, fd |-> d2.names[PathOf(kind)],
                          image |-> content]]
    /\ UNCHANGED <<timerVars, poke, held, nv, battle, weather, last, bmsg, chan>>

\* await battle.channel.send(embed=..., file=file, view=...): the open file is
\* read and posted; exists says whether image_path was there at that moment
ImageSend(b) ==
    /\ task[b].pc = "sending"
    /\ chan' = [chan EXCEPT ![b] =
                  Append(chan[b], [sent   |-> disk.data[task[b].fd],
                                   drawn  |-> task[b].image,
                                   exists |-> disk.names[PathOf(task[b].kind)] # 0])]
    /\ task' = [task EXCEPT ![b].pc = "cleanup"]
    /\ UNCHANGED <<timerVars, poke, held, nv, battle, weather, last, bmsg, disk>>

\* the clean-up after the await (lines 246-249 and 468-471) and the return
ImageCleanup(b) ==
    /\ task[b].pc = "cleanup"
    /\ disk' = RemoveFile(disk, PathOf(task[b].kind))
    /\ task' = [task EXCEPT ![b] = [pc |-> "idle", round |-> task[b].round]]
    /\ UNCHANGED <<timerVars, poke, held, nv, battle, weather, last, bmsg, chan>>

ImageNext ==
    \/ \E b \in Battles, kind \in {"preview", "main"} : ImageRender(b, kind)
    \/ \E b \in Battles : ImageSend(b)
    \/ \E b \in Battles : ImageCleanup(b)

SpecImage == ImageInit /\ [][ImageNext]_vars

\* C15: when two battles run interleaved at their awaits, neither reads nor
\* overwrites the other's state: the image each battle sends is the one
\* drawn from its own state, and each battle's temporary image still exists
\* until that battle has sent it.
C15_BattlesAreIsolated ==
    \A b \in Battles :
        /\ \A i \in 1 .. Len(chan[b]) :
              chan[b][i].sent = chan[b][i].drawn /\ chan[b][i].exists
        /\ task[b].pc = "sending"
           => ( /\ disk.names[PathOf(task[b].kind)] # 0
                /\ disk.data[task[b].fd] = task[b].image )

\* an active creature has the ability that keeps the heavy weather w
Anchored(w) ==
    \E t \in Slots :
        \/ w = "h-wind" /\ Ability(poke[t]) = "DELTA_STREAM"
        \/ w = "h-sun" /\ Ability(poke[t]) = "DESOLATE_LAND"
        \/ w = "h-rain" /\ Ability(poke[t]) = "PRIMORDIAL_SEA"

\* C16: a stored heavy weather is left as it is by next_turn() and by
\* recheck_ability_weather() while an active creature has the matching ability
\* (Delta Stream, Desolate Land, Primordial Sea); recheck_ability_weather()
\* clears the weather and returns True exactly when the weather is heavy and
\* neither creature has the matching ability, and never clears an ordinary
\* weather.
C16_HeavyWeatherStaysWhileAnchored ==
    [][ /\ ( /\ last'.op \in {"next_turn", "recheck"}
             /\ weather.type \in HeavyWeathers
             /\ Anchored(weather.type) )
           => ( weather' = weather /\ last'.ret = <<"False">> )
        /\ last'.op = "recheck"
           => ( /\ last'.ret = <<"True">>
                   <=> (weather.type \in HeavyWeathers /\ ~Anchored(weather.type))
                /\ last'.ret = <<"True">> => weather'.type = ""
                /\ last'.ret = <<"False">> => weather' = weather
                /\ weather.type \in OrdinaryWeathers => weather' = weather )
      ]_vars

\* C16 witness: heavy rain was kept by recheck_ability_weather() because the
\* second creature alone has Primordial Sea
C16_Witness ==
    /\ last.op = "recheck" /\ last.ret = <<"False">>
    /\ weather.type = "h-rain" /\ weather.turns = None
    /\ Ability(poke[1]) # "PRIMORDIAL_SEA" /\ Ability(poke[2]) = "PRIMORDIAL_SEA"

\* --- the suppression specification: Weather.get() between set, next_turn
\* --- and the switching of the active creatures

\* a call of Weather.get()
WeatherGetCall ==
    /\ last' = [op |-> "get", w |-> "", ret |-> <<WeatherGet>>, exc |-> "None"]
    /\ UNCHANGED <<timerVars, dataVars, poke, held, nv, battle, weather>>

\* ability and species of the creatures of the suppression specification
GetKinds ==
    { <<"NONE", "Pikachu">>, <<"CLOUD_NINE", "Golduck">>, <<"AIR_LOCK", "Rayquaza">> }

\* trainer.current_pokemon = another creature: the creature of slot s leaves
\* and a creature of kind k is active in its place
SwitchIn(s, k) ==
    /\ poke[s] # WeatherPoke(k)
    /\ poke' = [poke EXCEPT ![s] = WeatherPoke(k)]
    /\ last' = [op |-> "switch", w |-> "", ret |-> <<>>, exc |-> "None"]
    /\ UNCHANGED <<timerVars, dataVars, held, nv, battle, weather>>

GetInit ==
    /\ TimerIdle
    /\ DataIdle
    /\ BattleIdle
    /\ nv = [s \in Slots |-> NoStatus]
    /\ held = [s \in Slots |-> EmptyHeld]
    /\ \E k1 \in GetKinds, k2 \in GetKinds :
           poke = [s \in Slots |-> WeatherPoke(IF s = 1 THEN k1 ELSE k2)]
    /\ last = NoCall

GetNext ==
    \/ \E w \in OrdinaryWeathers \cup HeavyWeathers, s \in Slots : WeatherSet(w, s)
    \/ WeatherNextTurn
    \/ WeatherGetCall
    \/ \E s \in Slots, k \in GetKinds : SwitchIn(s, k)

SpecGet == GetInit /\ [][GetNext]_vars

\* C17: Weather.get() returns the empty weather when an active creature has
\* Cloud Nine or Air Lock and the stored type otherwise, and changes neither
\* the stored type nor the remaining turns; the countdown of a suppressed
\* weather goes on, so the weather is reported again once no creature
\* suppresses it.
C17_GetSuppressesWithoutChanging ==
    [][ /\ last'.op = "get"
           => ( /\ last'.ret =
                     IF \E t \in Slots : Ability(poke[t]) \in {"CLOUD_NINE", "AIR_LOCK"}
                     THEN <<"">> ELSE <<weather.type>>
                /\ weather' = weather
                /\ poke' = poke )
        /\ ( last'.op = "next_turn" /\ weather.turns # None /\ weather.turns > 0 )
           => weather'.turns = weather.turns - 1
      ]_vars

\* C17 witness: a rain with 3 of its 5 turns left is reported as no weather
\* while a Cloud Nine creature is active
C17_Witness ==
    /\ last.op = "get" /\ last.ret = <<"">>
    /\ weather.type = "rain" /\ weather.turns = 3
    /\ \E t \in Slots : Ability(poke[t]) = "CLOUD_NINE"

\* --- the visibility specification: HeldItem.get() of every unremovable item
\* --- and of some removable ones under every combination of the suppressors

\* the items of the visibility specification
VisibleItems == Unremovable \cup {"None", "choice-band", "lum-berry", "focus-sash"}

VisibleInit ==
    /\ TimerIdle
    /\ DataIdle
    /\ nv = [s \in Slots |-> NoStatus]
    /\ weather = NoWeather
    /\ \E it \in VisibleItems, em \in BOOLEAN, mr \in BOOLEAN,
          kl \in BOOLEAN, cg \in BOOLEAN :
          /\ poke = [s \in Slots |->
                       IF s = 1
                       THEN [DefaultPoke EXCEPT
                               !.embargo = em,
                               !.corrosive_gas = cg,
                               !.ability = IF kl THEN "KLUTZ" ELSE "NONE"]
                       ELSE DefaultPoke]
          /\ held = [s \in Slots |-> NewHeld(IF s = 1 THEN it ELSE "None")]
          /\ battle = [magic_room |-> mr, terrain |-> "None"]
    /\ last = NoCall

\* a call of HeldItem.get() on the slot of creature s
HeldGetCall(s) ==
    /\ last' = [op |-> "get", self |-> s, ret |-> HeldGet(s)]
    /\ UNCHANGED <<timerVars, dataVars, poke, held, nv, battle, weather>>

VisibleNext == \E s \in Slots : HeldGetCall(s)

SpecVisible == VisibleInit /\ [][VisibleNext]_vars

\* C18: HeldItem.get() returns the name of every unremovable item whatever
\* Embargo, Magic Room, Klutz or corrosive gas say, and returns None for a
\* removable item exactly when one of those four is in effect or the slot is
\* empty (the item's name otherwise); get() changes nothing.
C18_UnremovableItemsAreNeverHidden ==
    [][ last'.op = "get" =>
          LET h == held[last'.self]
              p == poke[last'.self]
              hidden == \/ p.embargo
                        \/ battle.magic_room
                        \/ Ability(p) = "KLUTZ"
                        \/ p.corrosive_gas
          IN  /\ h.item \in Unremovable => last'.ret = h.item
              /\ h.item \notin Unremovable =>
                    /\ last'.ret = "None" <=> (h.item = "None" \/ hidden)
                    /\ last'.ret # "None" => last'.ret = h.item
              /\ held' = held /\ poke' = poke /\ battle' = battle
      ]_vars

\* C18 witness: a mega stone is reported under all four suppressors at once
C18_Witness ==
    /\ last.op = "get" /\ last.self = 1 /\ last.ret = "mega-stone"
    /\ held[1].item = "mega-stone"
    /\ poke[1].embargo /\ battle.magic_room
    /\ Ability(poke[1]) = "KLUTZ" /\ poke[1].corrosive_gas

\* C19: a.recover(b) never fails; afterwards a.item is b's previous last_used
\* and b.last_used is None, whatever a held (an unremovable item is
\* overwritten, and a None last_used empties a's slot). A use() that succeeds
\* leaves the item in last_used, so use() followed by recover on the same slot
\* restores the item.
C19_RecoverClaimsLastUsed ==
    [][ /\ last'.op = "recover"
           => ( /\ last'.exc = "None"
                /\ held'[last'.self].item = held[last'.other].last_used
                /\ held'[last'.other].last_used = "None"
                /\ last'.self # last'.other
                   => ( /\ held'[last'.self].last_used = held[last'.self].last_used
                        /\ held'[last'.other].item = held[last'.other].item ) )
        /\ ( last'.op = "use" /\ last'.exc = "None" )
           => ( /\ held'[last'.self].last_used = held[last'.self].item
                /\ held'[last'.self].item = "None" )
        /\ ( /\ last.op = "use" /\ last.exc = "None"
             /\ last'.op = "recover"
             /\ last'.self = last.self /\ last'.other = last.self )
           => ( /\ held'[last'.self].item = held[last'.self].last_used
                /\ held[last'.self].item = "None"
                /\ held'[last'.self].last_used = "None" )
      ]_vars

\* C19 witness: slot 1 has recovered the berry that slot 2 had used
C19_Witness ==
    /\ last.op = "recover" /\ last.self = 1 /\ last.other = 2
    /\ last.exc = "None"
    /\ held[1].item = "lum-berry" /\ held[1].last_used = "None"
    /\ held[2].item = "None" /\ held[2].last_used = "None"
    /\ held[2].ever_had_item /\ held[1].ever_had_item

\* the conditions under which apply_status(status, attacker=a, move=mv,
\* force=force) on creature t returns from one of its guards (lines 397-418)
GuardFires(t, a, mv, force) ==
    LET p == poke[t]
    IN  \/ nv[t].current # "" /\ ~force
        \/ Ability(p) \in {"COMATOSE", "PURIFYING_SALT"}
        \/ Ability(p) = "LEAF_GUARD" /\ WeatherGet \in {"sun", "h-sun"}
        \/ p.substitute /\ a # t /\ mv # "bypass"
        \/ p.safeguard /\ a # t /\ (a = 0 \/ Ability(poke[a]) # "INFILTRATOR")
        \/ p.grounded /\ battle.terrain = "misty"
        \/ Ability(p) = "FLOWER_VEIL" /\ "GRASS" \in p.types
        \/ p.name = "Minior"

\* the conditions under which it returns from the immunity tests of the
\* status's own block (lines 419-475)
ImmunityFires(t, status, a) ==
    LET p == poke[t]
        corrodes == a # 0 /\ Ability(poke[a]) = "CORROSION"
    IN  \/ /\ status = "burn"
           /\ \/ "FIRE" \in p.types
              \/ Ability(p) \in {"WATER_VEIL", "WATER_BUBBLE"}
        \/ /\ status = "sleep"
           /\ \/ Ability(p) \in {"INSOMNIA", "VITAL_SPIRIT", "SWEET_VEIL"}
              \/ p.grounded /\ battle.terrain = "electric"
              \/ \E s \in Slots : poke[s].uproar
        \/ /\ status \in {"poison", "b-poison"}
           /\ \/ ~corrodes /\ p.types \cap {"STEEL", "POISON"} # {}
              \/ Ability(p) \in {"IMMUNITY", "PASTEL_VEIL"}
        \/ /\ status = "paralysis"
           /\ \/ "ELECTRIC" \in p.types
              \/ Ability(p) = "LIMBER"
        \/ /\ status = "freeze"
           /\ \/ "ICE" \in p.types
              \/ Ability(p) = "MAGMA_ARMOR"
              \/ WeatherGet \in {"sun", "h-sun"}

\* C20: whenever apply_status returns from a guard or an immunity test, with
\* force=True on a creature that has a status included, nothing is assigned:
\* the statuses, sleep timers and bad-poison counters of both creatures, both
\* held items and both creatures are as before, and the returned text is one
\* non-empty sentence about the target.
C20_EarlyExitMutatesNothing ==
    [][ ( /\ last'.op = "apply_status"
          /\ \/ GuardFires(last'.target, last'.attacker, last'.move, last'.force)
             \/ ImmunityFires(last'.target, last'.status, last'.attacker) )
        => ( /\ nv' = nv
             /\ held' = held
             /\ poke' = poke
             /\ Len(last'.ret) = 1
             /\ last'.ret[1].who = last'.target
             /\ last'.ret[1].what # "" )
      ]_vars

\* C20 witness: a forced burn on a sleeping fire type is refused and the sleep
\* and its timer stay
C20_Witness ==
    /\ last.op = "apply_status" /\ last.force /\ last.status = "burn"
    /\ last.was.current = "sleep" /\ last.was.sleep_timer = 3
    /\ "FIRE" \in poke[1].types
    /\ nv[1] = last.was
    /\ last.ret = Msg(1, "is a fire type and can't be burned")

\* ------------------------------------------------------------------------
\* LockedMove, ExpiringItem, ExpiringWish (misc.py 186-227, 297-316): the
\* timers that carry a payload
\* ------------------------------------------------------------------------

\* the durations a payload timer is given
PayloadTurns == 1 .. 3

\* the moves a creature is locked into, the items and the banked HP stored
LockedMoves == {"outrage"}

PayloadItems == {"choice-band"}

WishHps == {50, 80, 120}

\* LockedMove.__init__(move, turns_to_expire) next to a fresh ExpiringItem()
\* and ExpiringWish()
PayloadInit ==
    /\ PlainTimerIdle
    /\ \E mv \in LockedMoves, n \in PayloadTurns :
          timers = [NoTimers EXCEPT !.locked = [turns |-> n, move |-> mv, turn |-> 0]]
    /\ CreaturesIdle
    /\ BattleIdle
    /\ DataIdle
    /\ last = NoCall

\* LockedMove.next_turn()
LockedNextTurn ==
    /\ timers.locked.turn < MaxTicks
    /\ timers' = [timers EXCEPT
          !.locked.turns = NextTurnTurns(timers.locked.turns),
          !.locked.turn = timers.locked.turn + 1]
    /\ last' = [op |-> "locked.next_turn", ret |-> NextTurnRet(timers.locked.turns)]
    /\ UNCHANGED <<eff, effOp, effRet, effSet, effTicks, dataVars,
                   poke, held, nv, battle, weather>>

\* ExpiringItem.next_turn()
ItemNextTurn ==
    /\ LET expired == NextTurnRet(timers.item.turns)
       IN  /\ timers' = [timers EXCEPT
                 !.item.turns = NextTurnTurns(timers.item.turns),
                 !.item.item = IF expired THEN "None" ELSE timers.item.item]
           /\ last' = [op |-> "item.next_turn", ret |-> expired]
    /\ UNCHANGED <<eff, effOp, effRet, effSet, effTicks, dataVars,
                   poke, held, nv, battle, weather>>

\* ExpiringItem.set(item, turns)
ItemSet(item, turns) ==
    /\ timers' = [timers EXCEPT !.item = [turns |-> turns, item |-> item]]
    /\ last' = [op |-> "item.set", ret |-> FALSE]
    /\ UNCHANGED <<eff, effOp, effRet, effSet, effTicks, dataVars,
                   poke, held, nv, battle, weather>>

\* ExpiringItem.end()
ItemEnd ==
    /\ timers' = [timers EXCEPT !.item = [turns |-> 0, item |-> "None"]]
    /\ last' = [op |-> "item.end", ret |-> FALSE]
    /\ UNCHANGED <<eff, effOp, effRet, effSet, effTicks, dataVars,
                   poke, held, nv, battle, weather>>

\* the last call was made on the wish: its record carries the history of the
\* wish (banked: the amount of the last set; replaced: the amount that set
\* found banked; ticks: the next_turn calls since, counted up to MaxTicks)
WishCalled == last.op \in {"wish.set", "wish.next_turn"}

\* ExpiringWish.next_turn(): returns the banked HP on expiry, 0 otherwise
WishNextTurn ==
    /\ LET expired == NextTurnRet(timers.wish.turns)
       IN  /\ timers' = [timers EXCEPT
                 !.wish.turns = NextTurnTurns(timers.wish.turns),
                 !.wish.hp = IF expired THEN None ELSE timers.wish.hp]
           /\ last' = [op |-> "wish.next_turn",
                       ret |-> IF expired THEN timers.wish.hp ELSE 0,
                       banked |-> IF WishCalled THEN last.banked ELSE None,
                       replaced |-> IF WishCalled THEN last.replaced ELSE None,
                       ticks |-> IF ~WishCalled THEN 0
                                 ELSE IF last.ticks < MaxTicks THEN last.ticks + 1
                                 ELSE MaxTicks]
    /\ UNCHANGED <<eff, effOp, effRet, effSet, effTicks, dataVars,
                   poke, held, nv, battle, weather>>

\* set that banks the amount but lets a running countdown go on
WishSetKeepsCountdown(hp) ==
    /\ timers' = [timers EXCEPT !.wish =
          [turns |-> IF Active(timers.wish.turns) THEN timers.wish.turns ELSE 2,
           hp |-> hp]]
    /\ last' = [op |-> "wish.set", ret |-> FALSE, banked |-> hp,
                replaced |-> timers.wish.hp, ticks |-> 0]
    /\ UNCHANGED <<eff, effOp, effRet, effSet, effTicks, dataVars,
                   poke, held, nv, battle, weather>>

\* ExpiringWish.set(hp)
WishSet(hp) ==
    /\ timers' = [timers EXCEPT !.wish = [turns |-> 2, hp |-> hp]]
    /\ last' = [op |-> "wish.set", ret |-> FALSE, banked |-> hp,
                replaced |-> timers.wish.hp, ticks |-> 0]
    /\ UNCHANGED <<eff, effOp, effRet, effSet, effTicks, dataVars,
                   poke, held, nv, battle, weather>>

PayloadNext ==
    \/ LockedNextTurn
    \/ ItemNextTurn
    \/ \E it \in PayloadItems, n \in PayloadTurns : ItemSet(it, n)
    \/ ItemEnd
    \/ WishNextTurn
    \/ \E hp \in WishHps : WishSet(hp)

SpecPayload == PayloadInit /\ [][PayloadNext]_vars

\* C21: for LockedMove.move, ExpiringItem.item and ExpiringWish.hp alike, the
\* payload is None whenever the timer is inactive, and a next_turn() that
\* leaves the timer active leaves the payload in place.
C21_PayloadClearedAtExpiry ==
    /\ [](~Active(timers.locked.turns) => timers.locked.move = "None")
    /\ [](~Active(timers.item.turns) => timers.item.item = "None")
    /\ [](~Active(timers.wish.turns) => timers.wish.hp = None)
    /\ [][ /\ Active(timers'.locked.turns) /\ last'.op = "locked.next_turn"
              => timers'.locked.move = timers.locked.move
           /\ Active(timers'.item.turns) /\ last'.op = "item.next_turn"
              => timers'.item.item = timers.item.item
           /\ Active(timers'.wish.turns) /\ last'.op = "wish.next_turn"
              => timers'.wish.hp = timers.wish.hp ]_vars

\* ------------------------------------------------------------------------
\* BatonPass (misc.py 1135-1185)
\* ------------------------------------------------------------------------

\* the seven stat stages, which apply skips for a Curious Medicine creature
StageFields ==
    { "attack_stage", "defense_stage", "spatk_stage", "spdef_stage",
      "speed_stage", "evasion_stage", "accuracy_stage" }

\* the attributes BatonPass.__init__ captures
PassFields ==
    StageFields \cup
    { "confusion", "focus_energy", "mind_reader", "leech_seed", "curse",
      "substitute", "ingrain", "power_trick", "power_shift", "heal_block",
      "embargo", "perish_song", "magnet_rise", "aqua_ring", "telekinesis" }

\* a creature with the attributes BatonPass reads, none of them set; curse is
\* kept as the text of its value, since apply stores an object in it
PassDefault ==
    DefaultPoke @@
    [ attack_stage |-> 0, defense_stage |-> 0, spatk_stage |-> 0,
      spdef_stage |-> 0, speed_stage |-> 0, evasion_stage |-> 0,
      accuracy_stage |-> 0, focus_energy |-> FALSE, mind_reader |-> FALSE,
      leech_seed |-> FALSE, curse |-> "False", ingrain |-> FALSE,
      power_trick |-> FALSE, power_shift |-> FALSE, heal_block |-> FALSE,
      perish_song |-> FALSE, magnet_rise |-> FALSE, aqua_ring |-> FALSE,
      telekinesis |-> FALSE ]

\* a value of the attribute f other than its default
SetValue(f) ==
    IF f \in StageFields \cup {"confusion"} THEN 2
    ELSE IF f = "curse" THEN "True"
    ELSE TRUE

\* PassDefault with every captured attribute set
PassAllSet ==
    [f \in DOMAIN PassDefault |->
        IF f \in PassFields THEN SetValue(f) ELSE PassDefault[f]]

\* the outgoing creatures: nothing set, one attribute set, all set
PassOutgoing ==
    { PassDefault, PassAllSet }
    \cup { [PassDefault EXCEPT ![f] = SetValue(f)] : f \in PassFields }

\* BatonPass.__init__(poke): the captured attributes
Snapshot(p) == [f \in PassFields |-> p[f]]

\* BatonPass.apply(poke) of the snapshot b: the creature afterwards; curse is
\* assigned the BatonPass object itself (line 1176)
BatonApply(b, q) ==
    [f \in DOMAIN q |->
        IF f \in StageFields
        THEN IF Ability(q) # "CURIOUS_MEDICINE" THEN b[f] ELSE q[f]
        ELSE IF f = "curse" THEN "BatonPass object"
        ELSE IF f \in PassFields THEN b[f]
        ELSE q[f]]

\* an outgoing creature in slot 1 and an incoming one in slot 2
PassInit ==
    /\ TimerIdle
    /\ DataIdle
    /\ BattleIdle
    /\ nv = [s \in Slots |-> NoStatus]
    /\ held = [s \in Slots |-> EmptyHeld]
    /\ \E p \in PassOutgoing, q \in {PassDefault, PassAllSet},
          ab \in {"NONE", "CURIOUS_MEDICINE"} :
          poke = [s \in Slots |-> IF s = 1 THEN p ELSE [q EXCEPT !.ability = ab]]
    /\ last = NoCall

\* BatonPass(p) of the outgoing creature; last keeps the object
TakeBaton ==
    /\ last.op = "init"
    /\ last' = [op |-> "BatonPass", baton |-> Snapshot(poke[1])]
    /\ UNCHANGED <<timerVars, dataVars, poke, held, nv, battle, weather>>

\* apply(q) of that object on the incoming creature
ApplyBaton ==
    /\ last.op = "BatonPass"
    /\ poke' = [poke EXCEPT ![2] = BatonApply(last.baton, poke[2])]
    /\ last' = [op |-> "apply", baton |-> last.baton]
    /\ UNCHANGED <<timerVars, dataVars, held, nv, battle, weather>>

PassNext ==
    \/ TakeBaton
    \/ ApplyBaton

SpecPass == PassInit /\ [][PassNext]_vars

\* C22: BatonPass(p) captures the value each of the 22 attributes has on p,
\* and after apply(q) on a creature q without Curious Medicine every captured
\* attribute of q equals the captured value.
C22_ApplyRestoresSnapshot ==
    [][ /\ last'.op = "BatonPass"
           => \A f \in PassFields : last'.baton[f] = poke[1][f]
        /\ ( last'.op = "apply" /\ Ability(poke[2]) # "CURIOUS_MEDICINE" )
           => \A f \in PassFields : poke'[2][f] = last.baton[f]
      ]_vars

\* C23: after any sequence of set, next_turn and recheck_ability_weather, each
\* active Forecast creature whose form changes succeed (a Castform) has the
\* form and type of the stored weather: rainy/water under rain or h-rain,
\* sunny/fire under sun or h-sun, snowy/ice under hail, and the base normal
\* form under sandstorm, h-wind or no weather.
C23_ForecastFormMatchesWeather ==
    \A s \in Slots :
        ( Ability(poke[s]) = "FORECAST" /\ poke[s].name \in CastformForms )
        => CASE weather.type \in {"rain", "h-rain"} ->
                   poke[s].name = "Castform-rainy" /\ poke[s].types = {"WATER"}
             [] weather.type \in {"sun", "h-sun"} ->
                   poke[s].name = "Castform-sunny" /\ poke[s].types = {"FIRE"}
             [] weather.type = "hail" ->
                   poke[s].name = "Castform-snowy" /\ poke[s].types = {"ICE"}
             [] weather.type \in {"sandstorm", "h-wind", ""} ->
                   poke[s].name = "Castform" /\ poke[s].types = {"NORMAL"}

\* C23 witness: an unanchored heavy rain has been removed by the recheck with
\* two Forecast creatures active, both back in the base form
C23_Witness ==
    /\ last.op = "recheck" /\ last.ret = <<"True">>
    /\ weather.type = ""
    /\ \A s \in Slots :
          /\ Ability(poke[s]) = "FORECAST"
          /\ poke[s].name = "Castform" /\ poke[s].types = {"NORMAL"}

\* the creature s got the status st in the step: it has it now and had
\* another status, or none, before
NewlySet(s, st) == nv'[s].current = st /\ nv[s].current # st

\* C24 as stated: apply_status never sets poison or b-poison on a creature
\* whose types include steel or poison, whatever the attacker's ability, the
\* move and force; nor paralysis on an electric type, nor freeze on an ice type.
C24_TypeImmunityForEveryAttacker ==
    [][ last'.op = "apply_status" =>
          \A s \in Slots :
             /\ poke[s].types \cap {"STEEL", "POISON"} # {}
                => ~NewlySet(s, "poison") /\ ~NewlySet(s, "b-poison")
             /\ "ELECTRIC" \in poke[s].types => ~NewlySet(s, "paralysis")
             /\ "ICE" \in poke[s].types => ~NewlySet(s, "freeze")
      ]_vars

\* C24 amended: the same, except that an attacker with Corrosion poisons a
\* steel- or poison-type target; the attacker that Synchronize poisons in
\* return is never exempt.
C24_TypeImmunityUnlessCorrosion ==
    [][ last'.op = "apply_status" =>
          \A s \in Slots :
             /\ ( /\ poke[s].types \cap {"STEEL", "POISON"} # {}
                  /\ NewlySet(s, "poison") \/ NewlySet(s, "b-poison") )
                => ( /\ s = last'.target
                     /\ last'.attacker # 0
                     /\ Ability(poke[last'.attacker]) = "CORROSION" )
             /\ "ELECTRIC" \in poke[s].types => ~NewlySet(s, "paralysis")
             /\ "ICE" \in poke[s].types => ~NewlySet(s, "freeze")
      ]_vars

\* C24 witness: a forced bad poison by the other creature's move was refused
\* to a burned steel type, which keeps its burn
C24_Witness ==
    /\ last.op = "apply_status" /\ last.status = "b-poison" /\ last.target = 1
    /\ last.force /\ last.attacker = 2 /\ last.move = "move"
    /\ "STEEL" \in poke[1].types
    /\ Ability(poke[2]) # "CORROSION"
    /\ last.was.current = "burn" /\ nv[1].current = "burn"
    /\ last.ret = Msg(1, "is a steel type and can't be poisoned")

\* the sleep timers a drawn duration leaves on creature t: random.randint(2, 4),
\* halved by integer division for Early Bird
DrawnSleep(t) ==
    IF Ability(poke[t]) = "EARLY_BIRD" THEN {1, 2} ELSE {2, 3, 4}

\* C25 as stated: after an apply_status("sleep") with no explicit turns that
\* narrates that the target fell asleep, the target's sleep timer is in
\* {2, 3, 4} without Early Bird and in {1, 2} with it.
C25_DrawnSleepDuration ==
    [][ ( /\ last'.op = "apply_status" /\ last'.status = "sleep"
          /\ last'.turns = None
          /\ InflictedIn(last'.ret, last'.target, "sleep") )
        => nv'[last'.target].sleep_timer \in DrawnSleep(last'.target)
      ]_vars

\* C25 amended: the same, unless the target's visible item is chesto-berry or
\* lum-berry and it may eat it (hp not 0, attacker without Unnerve or As One):
\* then the sleep is cured within the call and the timer is 0 on return.
C25_DrawnSleepDurationUnlessCured ==
    [][ ( /\ last'.op = "apply_status" /\ last'.status = "sleep"
          /\ last'.turns = None
          /\ InflictedIn(last'.ret, last'.target, "sleep") )
        => LET t == last'.target
               a == last'.attacker
           IN  IF /\ HeldGet(t) \in {"chesto-berry", "lum-berry"}
                  /\ poke[t].hp # 0
                  /\ ~( /\ a # 0
                        /\ Ability(poke[a]) \in {"UNNERVE", "AS_ONE_SHADOW",
                                                 "AS_ONE_ICE"} )
               THEN nv'[t].sleep_timer = 0 /\ nv'[t].current = ""
               ELSE /\ nv'[t].sleep_timer \in DrawnSleep(t)
                    /\ nv'[t].current = "sleep"
      ]_vars

\* C25 witness: an Early Bird creature fell asleep for a drawn duration and
\* its timer holds 1
C25_Witness ==
    /\ last.op = "apply_status" /\ last.status = "sleep" /\ last.target = 1
    /\ last.turns = None
    /\ Ability(poke[1]) = "EARLY_BIRD"
    /\ last.ret = Msg(1, "fell asleep")
    /\ nv[1].current = "sleep" /\ nv[1].sleep_timer = 1

\* the attacker a, with no status, passes every guard and immunity test of the
\* apply_status(status, attacker=t) that creature t's Synchronize makes on it
\* (no move, no force)
SynchronizeLands(a, t, status) ==
    /\ nv[a].current = ""
    /\ ~GuardFires(a, t, "None", FALSE)
    /\ ~ImmunityFires(a, status, t)

\* C26 as stated: when apply_status inflicts S on a defender with Synchronize
\* and a distinct attacker is given, the attacker ends the call with S
\* whenever it had no status and none of its own guards or immunities
\* applies; when the defender's application is blocked, the attacker's status
\* is unchanged.
C26_SynchronizeMirrorsStatus ==
    [][ ( /\ last'.op = "apply_status"
          /\ last'.attacker \notin {0, last'.target}
          /\ Ability(poke[last'.target]) = "SYNCHRONIZE" )
        => LET t == last'.target
               a == last'.attacker
           IN  IF InflictedIn(last'.ret, t, last'.status)
               THEN SynchronizeLands(a, t, last'.status)
                    => nv'[a].current = last'.status
               ELSE nv'[a] = nv[a]
      ]_vars

\* C26 amended: the same, except that an attacker whose visible item is the
\* berry curing S, or lum-berry, and whose hp is not 0 eats it within the
\* call and ends it without a status and without the berry.
C26_SynchronizeMirrorsUnlessCured ==
    [][ ( /\ last'.op = "apply_status"
          /\ last'.attacker \notin {0, last'.target}
          /\ Ability(poke[last'.target]) = "SYNCHRONIZE" )
        => LET t == last'.target
               a == last'.attacker
           IN  IF InflictedIn(last'.ret, t, last'.status)
               THEN SynchronizeLands(a, t, last'.status)
                    => IF /\ HeldGet(a) \in {CureBerryOf(last'.status), "lum-berry"}
                          /\ poke[a].hp # 0
                       THEN /\ nv'[a] = NoStatus
                            /\ held'[a].item = "None"
                            /\ held'[a].last_used = held[a].item
                       ELSE /\ nv'[a].current = last'.status
                            /\ InflictedIn(last'.ret, a, last'.status)
               ELSE nv'[a] = nv[a] /\ held'[a] = held[a]
      ]_vars

\* C26 witness: a paralysis inflicted by the other creature's move on a
\* Synchronize defender has paralyzed the attacker as well
C26_Witness ==
    /\ last.op = "apply_status" /\ last.status = "paralysis"
    /\ last.target = 1 /\ last.attacker = 2 /\ last.move = "move"
    /\ Ability(poke[1]) = "SYNCHRONIZE"
    /\ last.ret = Msg(1, "was paralyzed") \o Msg(2, "was paralyzed")
    /\ nv[1].current = "paralysis" /\ nv[2].current = "paralysis"

\* the line eat_berry narrates when creature t's berry cures the status
CuredLine(t, berry) ==
    [who |-> t,
     what |-> IF berry = "lum-berry"
              THEN "statuses were cleared from eating its berry"
              ELSE CureMsg(berry)]

\* what C27 promises for the call recorded in last': the berry is gone and
\* recorded as used, the status is cured, and the line of the attacker's
\* Synchronize status, if any, comes before the line of the cure
BerryEatenInCall ==
    LET t   == last'.target
        a   == last'.attacker
        ret == last'.ret
    IN  /\ held'[t].item = "None"
        /\ held'[t].last_used = held[t].item
        /\ nv'[t] = NoStatus
        /\ \E j \in 1 .. Len(ret) :
              /\ ret[j] = CuredLine(t, held[t].item)
              /\ \A i \in 1 .. Len(ret) :
                    (a # 0 /\ a # t /\ ret[i].who = a) => i < j

\* C27 as stated: when apply_status inflicts a status on a creature whose
\* visible item is the berry curing it or lum-berry, and the attacker has
\* neither Unnerve nor As One, the berry is eaten inside the call.
C27_CureBerryEatenInSameCall ==
    [][ ( /\ last'.op = "apply_status"
          /\ InflictedIn(last'.ret, last'.target, last'.status)
          /\ HeldGet(last'.target) \in {CureBerryOf(last'.status), "lum-berry"}
          /\ ~( /\ last'.attacker # 0
                /\ Ability(poke[last'.attacker]) \in
                      {"UNNERVE", "AS_ONE_SHADOW", "AS_ONE_ICE"} ) )
        => BerryEatenInCall
      ]_vars

\* C27 amended: the same for a creature whose hp is not 0; at 0 hp the berry
\* is kept and the status stays.
C27_CureBerryEatenUnlessFainted ==
    [][ ( /\ last'.op = "apply_status"
          /\ InflictedIn(last'.ret, last'.target, last'.status)
          /\ HeldGet(last'.target) \in {CureBerryOf(last'.status), "lum-berry"}
          /\ ~( /\ last'.attacker # 0
                /\ Ability(poke[last'.attacker]) \in
                      {"UNNERVE", "AS_ONE_SHADOW", "AS_ONE_ICE"} ) )
        => IF poke[last'.target].hp # 0
           THEN BerryEatenInCall
           ELSE /\ held'[last'.target] = held[last'.target]
                /\ nv'[last'.target].current = last'.status
      ]_vars

\* C27 witness: a Synchronize lum-berry holder was burned by the other
\* creature's move, burned it in return, and then ate its berry
C27_Witness ==
    /\ last.op = "apply_status" /\ last.status = "burn"
    /\ last.target = 1 /\ last.attacker = 2
    /\ Ability(poke[1]) = "SYNCHRONIZE"
    /\ last.ret = Msg(1, "was burned") \o Msg(2, "was burned")
                  \o Msg(1, "statuses were cleared from eating its berry")
    /\ nv[1] = NoStatus /\ nv[2].current = "burn"
    /\ held[1].item = "None" /\ held[1].last_used = "lum-berry"

\* ------------------------------------------------------------------------
\* NonVolatileEffect.next_turn (misc.py 328-364): the end-of-turn tick of a
\* status
\* ------------------------------------------------------------------------

\* largest bad-poison counter a tick is made from
MaxPoisonTicks == 17

\* Python's max and min of two integers
Max(a, b) == IF a >= b THEN a ELSE b

Min(a, b) == IF a <= b THEN a ELSE b

\* the result of a tick: the world it leaves, the message, and the amounts
\* handed to Pokemon.damage and Pokemon.heal (0: not called)
Ticked(W, msg, damage, heal) ==
    [W |-> W, msg |-> msg, damage |-> damage, heal |-> heal]

\* the ability tests of lines 338 and 342: the ability that cures the status
\* on this tick, or "" when none does; r is the value random.randint(0, 2)
\* draws for Shed Skin
AbilityCures(W, t, r) ==
    IF Ability(W.poke[t]) = "HYDRATION" /\ WeatherGetIn(W) \in {"rain", "h-rain"}
    THEN "hydration"
    ELSE IF Ability(W.poke[t]) = "SHED_SKIN" /\ r = 0
    THEN "shed skin"
    ELSE ""

\* the bad-poison damage without the cap of 15 turns
BadPoisonDamageUncapped(W, t) ==
    Max(1, (W.poke[t].starting_hp \div 16) * W.nv[t].badly_poisoned_turn)

\* the bad-poison damage of line 354
BadPoisonDamage(W, t) ==
    Max(1, (W.poke[t].starting_hp \div 16) * Min(15, W.nv[t].badly_poisoned_turn))

\* the damage or healing of a status that was not cured (lines 346-364)
StatusDamage(W, t) ==
    LET p   == W.poke[t]
        cur == W.nv[t].current
    IN  IF cur = "burn"
        THEN LET d1 == Max(1, p.starting_hp \div 16)
                 d  == IF Ability(p) = "HEATPROOF" THEN d1 \div 2 ELSE d1
                 D  == DamageOf(W, t, d)
             IN  Ticked(D.W, D.msg, d, 0)
        ELSE IF cur = "b-poison"
        THEN IF Ability(p) = "POISON_HEAL"
             THEN LET H == Heal(W, t, p.starting_hp \div 8)
                  IN  Ticked(H.W, H.msg, 0, p.starting_hp \div 8)
             ELSE LET D == DamageOf(W, t, BadPoisonDamage(W, t))
                  IN  Ticked(D.W, D.msg, BadPoisonDamage(W, t), 0)
        ELSE IF cur = "poison"
        THEN IF Ability(p) = "POISON_HEAL"
             THEN LET H == Heal(W, t, p.starting_hp \div 8)
                  IN  Ticked(H.W, H.msg, 0, p.starting_hp \div 8)
             ELSE LET d == Max(1, p.starting_hp \div 8)
                      D == DamageOf(W, t, d)
                  IN  Ticked(D.W, D.msg, d, 0)
        ELSE IF cur = "sleep" /\ p.nightmare
        THEN LET D == DamageOf(W, t, p.starting_hp \div 4)
             IN  Ticked(D.W, D.msg, p.starting_hp \div 4, 0)
        ELSE Ticked(W, <<>>, 0, 0)

\* the bad-poison counter as the increment of lines 336-337 leaves it
Counted(W, t) ==
    IF W.nv[t].current = "b-poison"
    THEN [W EXCEPT !.nv[t].badly_poisoned_turn = W.nv[t].badly_poisoned_turn + 1]
    ELSE W

\* next_turn that applies the damage of the status it has just cured
NvNextTurnDamagesCured(W, t, r) ==
    IF W.nv[t].current = "" THEN Ticked(W, <<>>, 0, 0)
    ELSE IF AbilityCures(Counted(W, t), t, r) # ""
    THEN LET S == StatusDamage(Counted(W, t), t)
         IN  Ticked(NvReset(S.W, t), S.msg, S.damage, S.heal)
    ELSE StatusDamage(Counted(W, t), t)

\* NonVolatileEffect.next_turn(battle) of creature t
NvNextTurn(W, t, r) ==
    IF W.nv[t].current = "" THEN Ticked(W, <<>>, 0, 0)
    ELSE IF AbilityCures(Counted(W, t), t, r) # ""
    THEN Ticked(NvReset(Counted(W, t), t),
                Msg(t, AbilityCures(Counted(W, t), t, r) \o " cured its status"),
                0, 0)
    ELSE StatusDamage(Counted(W, t), t)

\* the values random.randint(0, 2) can draw
ShedDraws == 0 .. 2

\* the abilities next_turn tests, and none of them
TickAbilities == {"NONE", "HYDRATION", "SHED_SKIN", "HEATPROOF", "POISON_HEAL"}

\* the maximum hit points of the ticking creature: below and above 16
TickHps == {10, 100}

\* the weathers of the tick specification
TickWeathers == {"", "rain", "h-rain", "sun"}

\* creature 1 with a status, an ability and a nightmare or none, at full
\* health, facing a creature that may have Cloud Nine, in some weather
TickInit ==
    /\ TimerIdle
    /\ DataIdle
    /\ held = [s \in Slots |-> EmptyHeld]
    /\ battle = [magic_room |-> FALSE, terrain |-> "None"]
    /\ \E ab \in TickAbilities, shp \in TickHps, st \in NvStates,
          nm \in BOOLEAN, w \in TickWeathers, oa \in {"NONE", "CLOUD_NINE"} :
          /\ nm => st.current = "sleep"
          /\ poke = [s \in Slots |->
                       IF s = 1
                       THEN [DefaultPoke EXCEPT !.ability = ab, !.hp = shp,
                                                !.starting_hp = shp, !.nightmare = nm]
                       ELSE [DefaultPoke EXCEPT !.ability = oa, !.name = "Eevee"]]
          /\ nv = [s \in Slots |-> IF s = 1 THEN st ELSE NoStatus]
          /\ weather = IF w = "" THEN NoWeather
                       ELSE [type |-> w, turns |-> SetTurnsOf(w, 2)]
    /\ last = NoCall

\* a call of next_turn on creature t's status with the draw r; last.was keeps
\* the status and last.hp the hit points the creature had when the call was
\* made, last.damage and last.heal the amounts handed to Pokemon.damage and
\* Pokemon.heal
NvNextTurnCall(t, r) ==
    /\ nv[t].badly_poisoned_turn < MaxPoisonTicks
    /\ Ability(poke[t]) # "SHED_SKIN" => r = 1
    /\ UNCHANGED <<timerVars, dataVars, battle, weather>>
    /\ LET R == NvNextTurn(World, t, r)
       IN  /\ poke' = R.W.poke
           /\ held' = R.W.held
           /\ nv' = R.W.nv
           /\ last' = [op |-> "nv.next_turn", target |-> t, draw |-> r,
                       was |-> nv[t], hp |-> poke[t].hp,
                       damage |-> R.damage, heal |-> R.heal, ret |-> R.msg]

\* the end-of-turn tick of creature 1
TickStatus == \E r \in ShedDraws : NvNextTurnCall(1, r)

\* a status forced onto creature 1 between two ticks
Reinflict ==
    \E status \in {"burn", "b-poison"} :
        ApplyStatusCall(1, status, 0, "None", None, TRUE, <<2, 2>>)

TickNext ==
    \/ TickStatus
    \/ Reinflict

SpecTick == TickInit /\ [][TickNext]_vars

\* an ability cures the status of creature t on the tick being made: Hydration
\* in reported rain, or Shed Skin with a draw of 0
CuredOnTick(t) ==
    \/ poke[t].ability = "HYDRATION" /\ WeatherGetIn(World) \in {"rain", "h-rain"}
    \/ poke[t].ability = "SHED_SKIN" /\ last'.draw = 0

\* C28: a next_turn of a badly poisoned creature adds one to the bad-poison
\* counter first; unless an ability cures it or it has Poison Heal, the damage
\* of the tick is max(1, (maxHP // 16) * min(15, counter)) with the counter
\* just incremented; over two consecutive ticks the damage does not decrease
\* and no longer grows once the counter has passed 15; the counter goes back
\* to 0 only where reset() has run.
C28_BadPoisonEscalates ==
    [][ \A t \in Slots :
          /\ ( /\ last'.op = "nv.next_turn" /\ last'.target = t
               /\ nv[t].current = "b-poison" )
             => IF CuredOnTick(t)
                THEN nv'[t].badly_poisoned_turn = 0
                ELSE /\ nv'[t].badly_poisoned_turn = nv[t].badly_poisoned_turn + 1
                     /\ IF poke[t].ability = "POISON_HEAL"
                        THEN last'.damage = 0
                        ELSE /\ last'.damage =
                                  Max(1, (poke[t].starting_hp \div 16)
                                           * Min(15, nv[t].badly_poisoned_turn + 1))
                             /\ poke'[t].hp = Max(0, poke[t].hp - last'.damage)
          /\ ( /\ last.op = "nv.next_turn" /\ last.target = t
               /\ last'.op = "nv.next_turn" /\ last'.target = t
               /\ last.was.current = "b-poison" /\ nv[t].current = "b-poison"
               /\ last.damage > 0 /\ last'.damage > 0 )
             => /\ last'.damage >= last.damage
                /\ last'.damage <= Max(1, 15 * (poke[t].starting_hp \div 16))
                /\ last.was.badly_poisoned_turn >= 14 => last'.damage = last.damage
          /\ ( nv[t].badly_poisoned_turn # 0 /\ nv'[t].badly_poisoned_turn = 0 )
             => /\ nv'[t] = NoStatus
                /\ ~poke'[t].nightmare
      ]_vars

\* C28 witness: the sixteenth tick of a bad poison on a creature of 100
\* maximum hit points dealt 15 * 6
C28_Witness ==
    /\ last.op = "nv.next_turn" /\ last.was.current = "b-poison"
    /\ last.was.badly_poisoned_turn = 15 /\ nv[1].badly_poisoned_turn = 16
    /\ poke[1].starting_hp = 100 /\ last.damage = 90

\* C29: a next_turn in which an ability cures the status (Hydration while
\* Weather.get() reports rain or h-rain, Shed Skin on a draw of 0) leaves the
\* creature with no status, a bad-poison counter and a sleep timer of 0 and no
\* nightmare, and hands nothing to Pokemon.damage or Pokemon.heal: its hit
\* points are those it had.  A next_turn of a creature with no status returns
\* the empty message and changes nothing.
C29_CureComesBeforeDamage ==
    [][ \A t \in Slots :
          ( last'.op = "nv.next_turn" /\ last'.target = t )
          => /\ ( nv[t].current # "" /\ CuredOnTick(t) )
                => /\ nv'[t].current = ""
                   /\ nv'[t].badly_poisoned_turn = 0
                   /\ nv'[t].sleep_timer = 0
                   /\ ~poke'[t].nightmare
                   /\ last'.damage = 0 /\ last'.heal = 0
                   /\ poke'[t].hp = poke[t].hp
                   /\ last'.ret # <<>>
             /\ nv[t].current = ""
                => /\ last'.ret = <<>>
                   /\ last'.damage = 0 /\ last'.heal = 0
                   /\ poke' = poke /\ nv' = nv /\ held' = held
                   /\ weather' = weather
      ]_vars

\* C29 witness: a Shed Skin creature lost hit points to a bad poison on a draw
\* other than 0, and the next tick drew 0: counter and status are gone, the
\* hit points are those it had before that tick
C29_Witness ==
    /\ last.op = "nv.next_turn" /\ last.target = 1 /\ last.draw = 0
    /\ poke[1].ability = "SHED_SKIN"
    /\ last.was.current = "b-poison" /\ last.was.badly_poisoned_turn = 3
    /\ nv[1] = NoStatus
    /\ last.hp < poke[1].starting_hp /\ poke[1].hp = last.hp
    /\ last.damage = 0

\* the statuses a berry cures
BerryCures(berry, st) ==
    \/ berry = "lum-berry" /\ st # ""
    \/ <<berry, st>> \in { <<"aspear-berry", "freeze">>, <<"cheri-berry", "paralysis">>,
                           <<"chesto-berry", "sleep">>, <<"pecha-berry", "poison">>,
                           <<"pecha-berry", "b-poison">>, <<"rawst-berry", "burn">> }

\* C30: an eat_berry call on a holder whose visible item is a berry leaves
\* the holder's item slot empty; when the holder eats it (no consumer, or the
\* holder as consumer) last_used becomes that berry; when the other creature
\* eats it the holder's last_used, attributes and status are unchanged, and
\* the consumer is the one marked as having eaten the berry and the one cured
\* or healed by it, its own item untouched.  When the visible item is no berry
\* (no item, not a berry, or a suppressed berry) the call returns the empty
\* message and changes nothing.
C30_EatBerryEmptiesSlot ==
    [][ \A o \in Slots :
          ( last'.op = "eat_berry" /\ last'.target = o )
          => IF HeldGet(o) \in Berries
             THEN /\ held'[o].item = "None"
                  /\ last'.ret # <<>>
                  /\ IF last'.consumer \in {0, o}
                     THEN /\ held'[o].last_used = held[o].item
                          /\ poke'[o].last_berry = held[o].item
                          /\ poke'[o].ate_berry
                          /\ BerryCures(held[o].item, nv[o].current)
                             => nv'[o] = NoStatus
                          /\ poke'[Other(o)] = poke[Other(o)]
                          /\ nv'[Other(o)] = nv[Other(o)]
                     ELSE LET c == last'.consumer IN
                          /\ held'[o].last_used = held[o].last_used
                          /\ poke'[o] = poke[o]
                          /\ nv'[o] = nv[o]
                          /\ held'[c] = held[c]
                          /\ poke'[c].last_berry = held[o].item
                          /\ poke'[c].ate_berry
                          /\ BerryCures(held[o].item, nv[c].current)
                             => nv'[c] = NoStatus
                          /\ ( held[o].item = "sitrus-berry"
                               /\ poke[c].ability \notin {"RIPEN", "CHEEK_POUCH"} )
                             => poke'[c].hp = Min(poke[c].starting_hp,
                                                  poke[c].hp + poke[c].starting_hp \div 4)
             ELSE /\ last'.ret = <<>>
                  /\ poke' = poke /\ held' = held /\ nv' = nv
      ]_vars

\* C30 witness: both creatures were paralysed and the other creature ate the
\* holder's cheri-berry: the slot is empty, nothing was recorded as last
\* used, the consumer is cured and the holder still paralysed
C30_Witness ==
    /\ last.op = "eat_berry" /\ last.target = 1 /\ last.consumer = 2
    /\ held[1].item = "None" /\ held[1].last_used = "None"
    /\ poke[2].last_berry = "cheri-berry" /\ poke[2].ate_berry
    /\ nv[2] = NoStatus /\ nv[1].current = "paralysis"
    /\ ~poke[1].ate_berry

\* ------------------------------------------------------------------------
\* Terrain (misc.py 230-294): an ExpiringItem whose item is the terrain.  The
\* Terrain of the battle is the ExpiringItem of timers: timers.item.item is
\* terrain.item, timers.item.turns its remaining turns
\* ------------------------------------------------------------------------

\* the terrains Terrain.set is called with
Terrains == {"electric", "grassy", "misty", "psychic"}

\* the element a Mimicry creature takes under a terrain (lines 256-264)
TerrainElementOf(item) ==
    CASE item = "electric" -> "ELECTRIC"
      [] item = "grassy"   -> "GRASS"
      [] item = "misty"    -> "FAIRY"
      [] item = "psychic"  -> "PSYCHIC"

\* the seed a terrain consumes (lines 272-283)
SeedOf(item) ==
    CASE item = "electric" -> "electric-seed"
      [] item = "grassy"   -> "grassy-seed"
      [] item = "misty"    -> "misty-seed"
      [] item = "psychic"  -> "psychic-seed"

\* the creature of the terrain specification: DefaultPoke with the types it
\* started the battle with and the two stat stages the seeds raise
TerrainDefault ==
    DefaultPoke @@ [starting_types |-> {"ELECTRIC"}, defense_stage |-> 0,
                    spdef_stage |-> 0]

\* Pokemon.append_defense / append_spdef: the stage raised, at most to 6
AppendDefense(W, t, n) ==
    LET to == IF W.poke[t].defense_stage + n > 6 THEN 6
              ELSE W.poke[t].defense_stage + n
    IN  [W |-> [W EXCEPT !.poke[t].defense_stage = to], msg |-> Msg(t, "defense rose")]

AppendSpdef(W, t, n) ==
    LET to == IF W.poke[t].spdef_stage + n > 6 THEN 6
              ELSE W.poke[t].spdef_stage + n
    IN  [W |-> [W EXCEPT !.poke[t].spdef_stage = to], msg |-> Msg(t, "sp. def rose")]

\* Terrain.set giving every setter 5 turns
TerrainTurnsOfFive(W, a) == 5

\* the turns Terrain.set gives a terrain set by creature a (line 251)
TerrainTurnsOf(W, a) ==
    IF HeldGetOf(W.held[a], W.poke[a]) = "terrain-extender" THEN 8 ELSE 5

\* the body of the loop of Terrain.set for creature t (lines 265-283):
\* Mimicry, then the seed of the terrain
TerrainEnters(W, t, item) ==
    LET M == IF Ability(W.poke[t]) = "MIMICRY"
             THEN [W   |-> [W EXCEPT !.poke[t].types = {TerrainElementOf(item)}],
                   msg |-> Msg(t, "changed type using its mimicry")]
             ELSE [W |-> W, msg |-> <<>>]
        S == IF HeldGetOf(M.W.held[t], M.W.poke[t]) = SeedOf(item)
             THEN LET A == IF item \in {"electric", "grassy"}
                           THEN AppendDefense(M.W, t, 1)
                           ELSE AppendSpdef(M.W, t, 1)
                  IN  [W |-> UseIn(A.W, t), msg |-> A.msg]
             ELSE [W |-> M.W, msg |-> <<>>]
    IN  [W |-> S.W, msg |-> M.msg \o S.msg]

\* Terrain.set that refreshes the turns of the terrain it is asked for again
TerrainSetRefreshing(W, T, item, a) ==
    IF item = T.item
    THEN [W |-> W, T |-> [T EXCEPT !.turns = TerrainTurnsOf(W, a)],
          msg |-> Msg(0, "already a terrain")]
    ELSE LET E1 == TerrainEnters(W, 1, item)
             E2 == TerrainEnters(E1.W, 2, item)
         IN  [W |-> E2.W, T |-> [item |-> item, turns |-> TerrainTurnsOf(W, a)],
              msg |-> Msg(a, "creates a terrain") \o E1.msg \o E2.msg]

\* Terrain.set(item, attacker) on the terrain T in world W
TerrainSet(W, T, item, a) ==
    IF item = T.item
    THEN [W |-> W, T |-> T, msg |-> Msg(0, "already a terrain")]
    ELSE LET E1 == TerrainEnters(W, 1, item)
             E2 == TerrainEnters(E1.W, 2, item)
         IN  [W |-> E2.W, T |-> [item |-> item, turns |-> TerrainTurnsOf(W, a)],
              msg |-> Msg(a, "creates a terrain") \o E1.msg \o E2.msg]

\* Terrain.end that leaves the creatures' types alone (lines 289-294 left out)
TerrainEndKeepsTypes(W) == W

\* the loop of Terrain.end: every Mimicry creature is given back the types it
\* started with
TerrainEnd(W) ==
    [W EXCEPT !.poke = [t \in Slots |->
        IF Ability(W.poke[t]) = "MIMICRY"
        THEN [W.poke[t] EXCEPT !.types = W.poke[t].starting_types]
        ELSE W.poke[t]]]

\* the items of the terrain specification
TerrainItems ==
    {"None", "terrain-extender", "electric-seed", "grassy-seed", "misty-seed",
     "psychic-seed"}

\* no terrain yet; creature 1 of one type, creature 2 of two, each with its
\* starting types, an ability and an item
TerrainInit ==
    /\ TimerIdle
    /\ DataIdle
    /\ battle = [magic_room |-> FALSE, terrain |-> "None"]
    /\ weather = NoWeather
    /\ nv = [s \in Slots |-> NoStatus]
    /\ \E a1 \in {"NONE", "MIMICRY", "KLUTZ"}, a2 \in {"NONE", "MIMICRY"},
          i1 \in TerrainItems, i2 \in {"None", "terrain-extender", "electric-seed"} :
          /\ poke = [s \in Slots |->
                IF s = 1
                THEN [TerrainDefault EXCEPT !.ability = a1, !.types = {"NORMAL"},
                                            !.starting_types = {"NORMAL"}]
                ELSE [TerrainDefault EXCEPT !.ability = a2, !.name = "Eevee",
                                            !.types = {"GRASS", "POISON"},
                                            !.starting_types = {"GRASS", "POISON"}]]
          /\ held = [s \in Slots |-> NewHeld(IF s = 1 THEN i1 ELSE i2)]
    /\ last = NoCall

\* a call of Terrain.set; last.was keeps the terrain as it was.  In the
\* terrain specification effSet and effTicks are the history of the terrain's
\* timer: the turns the last installing set gave it, and the next_turn calls
\* made on the running terrain since
TerrainSetCall(item, a) ==
    /\ UNCHANGED <<eff, effOp, effRet, dataVars, nv, weather>>
    /\ LET R == TerrainSet(World, timers.item, item, a)
       IN  /\ timers' = [timers EXCEPT !.item = R.T]
           /\ effSet' = IF item = timers.item.item THEN effSet ELSE R.T.turns
           /\ effTicks' = IF item = timers.item.item THEN effTicks ELSE 0
           /\ battle' = [battle EXCEPT !.terrain = R.T.item]
           /\ poke' = R.W.poke
           /\ held' = R.W.held
           /\ last' = [op |-> "terrain.set", item |-> item, by |-> a,
                       was |-> timers.item, ret |-> R.msg]

\* a call of Terrain.next_turn: the ExpiringItem tick, then end() on expiry
TerrainNextTurn ==
    /\ UNCHANGED <<eff, effOp, effRet, effSet, dataVars, nv, weather, held>>
    /\ effTicks' = IF Active(timers.item.turns) THEN effTicks + 1 ELSE effTicks
    /\ LET expired == NextTurnRet(timers.item.turns)
       IN  /\ timers' = [timers EXCEPT !.item =
                 IF expired THEN [turns |-> 0, item |-> "None"]
                 ELSE [turns |-> NextTurnTurns(timers.item.turns),
                       item |-> timers.item.item]]
           /\ battle' = [battle EXCEPT !.terrain =
                 IF expired THEN "None" ELSE timers.item.item]
           /\ poke' = IF expired THEN TerrainEnd(World).poke ELSE poke
           /\ last' = [op |-> "terrain.next_turn", was |-> timers.item,
                       expired |-> expired]

\* a call of Terrain.end
TerrainEndCall ==
    /\ UNCHANGED <<eff, effOp, effRet, effSet, effTicks, dataVars, nv, weather, held>>
    /\ timers' = [timers EXCEPT !.item = [turns |-> 0, item |-> "None"]]
    /\ battle' = [battle EXCEPT !.terrain = "None"]
    /\ poke' = TerrainEnd(World).poke
    /\ last' = [op |-> "terrain.end", was |-> timers.item]

TerrainNext ==
    \/ \E item \in Terrains, a \in Slots : TerrainSetCall(item, a)
    \/ TerrainNextTurn
    \/ TerrainEndCall
    \/ Swap(1, 2)

SpecTerrain == TerrainInit /\ [][TerrainNext]_vars

\* C31: Terrain.set(t, attacker) with t the current terrain returns the
\* 'already' message and changes nothing: terrain, remaining turns, and both
\* creatures' types, stat stages and items are as they were, whatever the
\* attacker holds.
C31_SetSameTerrainIsNoOp ==
    [][ ( last'.op = "terrain.set" /\ last'.item = timers.item.item )
        => ( /\ last'.ret = Msg(0, "already a terrain")
             /\ timers' = timers
             /\ battle' = battle
             /\ poke' = poke
             /\ held' = held )
      ]_vars

\* C31 witness: the electric terrain was asked for again with 3 turns left,
\* while a Mimicry creature is on the field and a creature shows the seed of
\* the terrain
C31_Witness ==
    /\ last.op = "terrain.set" /\ last.item = "electric"
    /\ last.was.item = "electric"
    /\ timers.item = [turns |-> 3, item |-> "electric"]
    /\ \E t \in Slots : HeldGet(t) = "electric-seed"
    /\ \E t \in Slots : poke[t].ability = "MIMICRY"

\* an installing set: the terrain asked for is not the one installed
InstallsTerrain == last'.op = "terrain.set" /\ last'.item # timers.item.item

\* the tick of a running terrain that is not, or is, the last one
TerrainTick(k) ==
    /\ last'.op = "terrain.next_turn"
    /\ timers.item.item # "None"
    /\ effTicks' = k

\* C32 as stated: the 8 turns go to a setter that holds terrain-extender.
C32_TurnsByHeldExtender ==
    [][ InstallsTerrain
        => timers'.item =
             [item |-> last'.item,
              turns |-> IF held[last'.by].item = "terrain-extender" THEN 8 ELSE 5]
      ]_vars

\* C32: an installing Terrain.set(t, attacker) leaves terrain.item = t with
\* d turns, d = 8 if the attacker's visible item (HeldItem.get()) is
\* terrain-extender and 5 otherwise; with no installing set or end in between,
\* after each of the first d-1 next_turn() calls terrain.item is still t and
\* the terrain is active, and the d-th next_turn() returns True and leaves
\* terrain.item None with 0 turns; in every state terrain.item is None iff
\* the terrain's timer is inactive.
C32_TerrainLastsItsTurns ==
    /\ [][ /\ InstallsTerrain
              => /\ timers'.item =
                      [item |-> last'.item,
                       turns |-> IF HeldGet(last'.by) = "terrain-extender"
                                 THEN 8 ELSE 5]
                 /\ effSet' = timers'.item.turns
           /\ \A k \in 1 .. 8 :
                TerrainTick(k)
                => IF k < effSet
                   THEN /\ ~last'.expired
                        /\ timers'.item.item = timers.item.item
                        /\ Active(timers'.item.turns)
                   ELSE /\ k = effSet
                        /\ last'.expired
                        /\ timers'.item = [turns |-> 0, item |-> "None"]
         ]_vars
    /\ [](timers.item.item = "None" <=> ~Active(timers.item.turns))

\* C32 witness: a terrain set by a creature showing terrain-extender expired
\* on its eighth tick
C32_Witness ==
    /\ last.op = "terrain.next_turn" /\ last.expired
    /\ effSet = 8 /\ effTicks = 8
    /\ timers.item = [turns |-> 0, item |-> "None"]

\* C33: in every state a Mimicry creature's types are the single type of the
\* installed terrain (electric, grass, fairy, psychic) while a terrain is
\* installed, and the types it started with when none is (none yet, expired,
\* or ended).
C33_MimicryFollowsTerrain ==
    \A t \in Slots :
        poke[t].ability = "MIMICRY"
        => IF timers.item.item = "None"
           THEN poke[t].types = poke[t].starting_types
           ELSE poke[t].types =
                  { CASE timers.item.item = "electric" -> "ELECTRIC"
                      [] timers.item.item = "grassy"   -> "GRASS"
                      [] timers.item.item = "misty"    -> "FAIRY"
                      [] timers.item.item = "psychic"  -> "PSYCHIC" }

\* C33 witness: a psychic terrain has expired and the Mimicry creature that
\* started with two types has them again
C33_Witness ==
    /\ last.op = "terrain.next_turn" /\ last.expired
    /\ last.was.item = "psychic"
    /\ poke[2].ability = "MIMICRY"
    /\ poke[2].types = {"GRASS", "POISON"}
    /\ timers.item.item = "None"

\* C34: after apply(q) on a creature q with Curious Medicine the seven stat
\* stages of q are what they were, and every other captured attribute of q
\* equals the captured value.
C34_CuriousMedicineKeepsStages ==
    [][ ( last'.op = "apply" /\ Ability(poke[2]) = "CURIOUS_MEDICINE" )
        => /\ \A f \in StageFields : poke'[2][f] = poke[2][f]
           /\ \A f \in PassFields \ StageFields : poke'[2][f] = last.baton[f]
      ]_vars

\* C35: in every state reachable through Weather.set, Weather.next_turn and
\* Weather.recheck_ability_weather the weather's timer is active() (turns left,
\* or permanent) if and only if a weather type is stored.
C35_TimerActiveIffWeather ==
    Active(weather.turns) <=> weather.type # ""

\* the sentences of a returned message that a berry or a confusion adds; every
\* other line is the one line an apply_status call returns or starts with
SideSentences ==
    { "became confused", "is already confused", "healed", "eats the berry",
      "berry had no effect", "statuses were cleared from eating its berry",
      "is no longer confused after eating its berry",
      "is no longer frozen after eating its berry",
      "is no longer paralyzed after eating its berry",
      "woke up after eating its berry",
      "is no longer poisoned after eating its berry",
      "is no longer burned after eating its berry" }

\* the apply_status calls that contributed to a returned message
CallsIn(msg) ==
    Cardinality({ i \in DOMAIN msg : msg[i].what \notin SideSentences })

\* C36: every apply_status call returns (each step of the specification is a
\* call that ran to its end), and at most three calls contribute to what it
\* returns: the call itself and at most two nested ones.  A nested call is
\* made only for a Synchronize target with an attacker given; a second one
\* only when the attacker has Synchronize as well, and it is turned down
\* because the target already has the status.
C36_SynchronizeChainEnds ==
    [][ last'.op = "apply_status"
        => LET n == CallsIn(last'.ret)
               t == last'.target
               a == last'.attacker
           IN  /\ n \in 1 .. 3
               /\ n >= 2 => ( Ability(poke[t]) = "SYNCHRONIZE" /\ a # 0 )
               /\ n = 3 => /\ a # t
                           /\ Ability(poke[a]) = "SYNCHRONIZE"
                           /\ \E i \in DOMAIN last'.ret :
                                 last'.ret[i] = [who |-> t, what |-> "already has a status"]
      ]_vars

\* C36 witness: a forced sleep between two Synchronize creatures: the target
\* fell asleep, the attacker fell asleep, and the attacker's Synchronize was
\* turned down by the target's new status
C36_Witness ==
    /\ last.op = "apply_status" /\ last.status = "sleep" /\ last.force
    /\ last.target = 1 /\ last.attacker = 2
    /\ Ability(poke[1]) = "SYNCHRONIZE" /\ Ability(poke[2]) = "SYNCHRONIZE"
    /\ last.was.current # ""
    /\ CallsIn(last.ret) = 3
    /\ nv[1].current = "sleep" /\ nv[2].current = "sleep"

\* ------------------------------------------------------------------------
\* Sequences of apply_status and reset on one creature
\* ------------------------------------------------------------------------

\* creature 1 with or without Early Bird and no status, alone on a clear field
SleepInit ==
    /\ TimerIdle
    /\ DataIdle
    /\ battle = [magic_room |-> FALSE, terrain |-> "None"]
    /\ weather = NoWeather
    /\ held = [s \in Slots |-> EmptyHeld]
    /\ nv = [s \in Slots |-> NoStatus]
    /\ \E ab \in {"NONE", "EARLY_BIRD"} :
          poke = [s \in Slots |->
                    IF s = 1 THEN [DefaultPoke EXCEPT !.ability = ab, !.types = {"NORMAL"}]
                    ELSE DefaultPoke]
    /\ last = NoCall

\* a call of reset on creature t's status
NvResetCall(t) ==
    /\ UNCHANGED <<timerVars, dataVars, battle, weather, held>>
    /\ poke' = NvReset(World, t).poke
    /\ nv' = NvReset(World, t).nv
    /\ last' = [op |-> "reset", target |-> t, was |-> nv[t]]

\* apply_status on creature 1 with no attacker: any status, forced or not,
\* sleep with its turns given or drawn
ApplyAny ==
    \E status \in Statuses, force \in BOOLEAN, turns \in SleepTurns, r \in SleepDraws :
        /\ (status # "sleep" \/ turns # None) => r = 2
        /\ status # "sleep" => turns = None
        /\ ApplyStatusCall(1, status, 0, "None", turns, force, <<r, 2>>)

SleepNext ==
    \/ ApplyAny
    \/ NvResetCall(1)

SpecSleep == SleepInit /\ [][SleepNext]_vars

\* C37: after any sequence of apply_status and reset calls on a creature, its
\* status is "sleep" if and only if its sleep timer is active.
C37_AsleepIffSleepTimerRuns ==
    \A t \in Slots : nv[t].current = "sleep" <=> Active(nv[t].sleep_timer)

\* ------------------------------------------------------------------------
\* The item calls from slots that hold different items
\* ------------------------------------------------------------------------

\* the states of ItemInit in which the two slots do not hold the same item
DistinctInit ==
    /\ ItemInit
    /\ held[1].item = held[2].item => held[1].item = "None"

SpecDistinct == DistinctInit /\ [][ItemNext]_vars

\* the four places an Item can be in: the two slots and the two last_used
\* records
ItemPlaces ==
    <<held[1].item, held[2].item, held[1].last_used, held[2].last_used>>

\* C38: from slots that hold different items, after any sequence of use,
\* remove, transfer, swap and recover calls no item is in two places: not in
\* both slots, not in a slot and a last_used record, not in both records.
C38_NoItemTwice ==
    \A i \in 1 .. 4, j \in 1 .. 4 :
        ( i # j /\ ItemPlaces[i] # "None" ) => ItemPlaces[i] # ItemPlaces[j]

\* C38 witness: creature 2 has recovered the berry creature 1 used, after
\* creature 1 took over creature 2's item
C38_Witness ==
    /\ last.op = "recover" /\ last.self = 2 /\ last.other = 1
    /\ held[2].item = "lum-berry" /\ held[1].item = "choice-band"
    /\ held[1].last_used = "None" /\ held[2].last_used = "None"

\* C39: no page generate_text_battle_message sends has an empty text, for
\* every buffer battle.msg, and battle.msg is empty when the call has
\* returned.
C39_NoEmptyPageIsSent ==
    \A b \in Battles :
        /\ \A i \in 1 .. Len(chan[b]) : chan[b][i] # <<>>
        /\ task[b].pc = "done" => bmsg[b] = <<>>

\* ------------------------------------------------------------------------
\* ExpiringWish on its own: set and next_turn in any order
\* ------------------------------------------------------------------------

\* a fresh ExpiringWish()
WishInit ==
    /\ TimerIdle
    /\ CreaturesIdle
    /\ BattleIdle
    /\ DataIdle
    /\ last = NoCall

WishNext ==
    \/ WishNextTurn
    \/ \E hp \in WishHps : WishSet(hp)

SpecWish == WishInit /\ [][WishNext]_vars

\* C40: after ExpiringWish.set(hp) the first next_turn() returns 0 and keeps
\* the amount banked, the second returns exactly hp and leaves the banked
\* amount None, and every later next_turn() returns 0 with nothing banked; a
\* next_turn() of a wish that was never set returns 0.  Every set, a set made
\* before the heal included, banks its own amount and starts the two-turn
\* countdown again.
C40_WishHealsOnce ==
    [][ /\ last'.op = "wish.set"
           => timers'.wish = [turns |-> 2, hp |-> last'.banked]
        /\ ( last'.op = "wish.next_turn" /\ last'.banked = None )
           => ( last'.ret = 0 /\ timers'.wish = NoTimers.wish )
        /\ ( last'.op = "wish.next_turn" /\ last'.banked # None )
           => CASE last'.ticks = 1 ->
                     last'.ret = 0 /\ timers'.wish.hp = last'.banked
                [] last'.ticks = 2 ->
                     last'.ret = last'.banked /\ timers'.wish.hp = None
                [] OTHER ->
                     last'.ret = 0 /\ timers'.wish.hp = None
      ]_vars

\* C40 witness: a wish of 50 was replaced, one tick after it was made, by a
\* wish of 80, which healed 80 on its own second tick
C40_Witness ==
    /\ last.op = "wish.next_turn" /\ last.ticks = 2
    /\ last.replaced = 50 /\ last.banked = 80 /\ last.ret = 80
    /\ timers.wish = [turns |-> 0, hp |-> None]

====
